---- MODULE Spec2Model ----
(***************************************************************************)
(* Model of the process-launch core of libs/dialog.py (pythondialog):      *)
(* Dialog._call_program, Dialog._wait_for_program_termination,             *)
(* Dialog._perform, Dialog.gauge_start and Dialog.gauge_stop, together     *)
(* with the forked child and the dialog backend it exec()s.                *)
(*                                                                         *)
(* Text is a sequence of one-character strings.                            *)
(***************************************************************************)
EXTENDS Integers, Sequences, FiniteSets, TLC

\* ------------------------------------------------------------------------
\* Bounds of the model
\* ------------------------------------------------------------------------
\* most characters the backend writes to the captured stream
MaxOut == 3
\* capacity of the output pipe (characters); smaller than MaxOut so that a
\* backend can fill it and still have output left to write
PipeCap == 1
\* signal numbers 1..MaxSignal can terminate the child
MaxSignal == 3

\* characters the backend can write
OutChars == {" ", "a"}
\* whitespace as understood by unicode.strip()
Whitespace == {" ", "\n", "\t"}

\* the values WEXITSTATUS() can report (eight bits)
ExitStatuses == 0 .. 255
Signals == 1 .. MaxSignal

\* ------------------------------------------------------------------------
\* Class attributes of Dialog
\* ------------------------------------------------------------------------
_DIALOG_OK == 0
_DIALOG_CANCEL == 1
_DIALOG_ESC == 2
_DIALOG_ERROR == 3
_DIALOG_EXTRA == 4
_DIALOG_HELP == 5
_DIALOG_ITEM_HELP == 6

_lowlevel_exit_code_varnames ==
    {"OK", "CANCEL", "ESC", "ERROR", "EXTRA", "HELP", "ITEM_HELP"}

OK == "ok"
CANCEL == "cancel"
ESC == "esc"
EXTRA == "extra"
HELP == "help"

\* getattr(self, name) for the high-level exit codes
HighLevelAttr(name) ==
    CASE name = "OK" -> OK
      [] name = "CANCEL" -> CANCEL
      [] name = "ESC" -> ESC
      [] name = "EXTRA" -> EXTRA
      [] name = "HELP" -> HELP

\* self._lowlevel_exit_codes, built by __init__: name -> getattr(self,
\* "_DIALOG_" + name)
_lowlevel_exit_codes ==
    [name \in _lowlevel_exit_code_varnames |->
        CASE name = "OK" -> _DIALOG_OK
          [] name = "CANCEL" -> _DIALOG_CANCEL
          [] name = "ESC" -> _DIALOG_ESC
          [] name = "ERROR" -> _DIALOG_ERROR
          [] name = "EXTRA" -> _DIALOG_EXTRA
          [] name = "HELP" -> _DIALOG_HELP
          [] name = "ITEM_HELP" -> _DIALOG_ITEM_HELP]

\* a faulty table: ITEM_HELP is looked up like the other names, so it gets
\* a tag of its own
LlToHlItemHelpOwnTag ==
    LET names == _lowlevel_exit_code_varnames \ {"ERROR"}
        codes == {_lowlevel_exit_codes[n] : n \in names}
    IN  [c \in codes |->
            LET n == CHOOSE m \in names : _lowlevel_exit_codes[m] = c
            IN  IF n = "ITEM_HELP" THEN "item_help" ELSE HighLevelAttr(n)]

\* self._dialog_exit_code_ll_to_hl, built by __init__: every name but ERROR
\* is entered under its integer code; ITEM_HELP is entered as HELP
_dialog_exit_code_ll_to_hl ==
    LET names == _lowlevel_exit_code_varnames \ {"ERROR"}
        codes == {_lowlevel_exit_codes[n] : n \in names}
    IN  [c \in codes |->
            LET n == CHOOSE m \in names : _lowlevel_exit_codes[m] = c
            IN  IF n = "ITEM_HELP" THEN HELP ELSE HighLevelAttr(n)]

\* ------------------------------------------------------------------------
\* Outcomes of a call: a returned value or a raised exception
\* ------------------------------------------------------------------------
NoResult ==
    [kind |-> "none", value |-> "", text |-> <<>>, num |-> -1, cause |-> ""]

\* _wait_for_program_termination returns (hl_exit_code, child_output)
Return(tag, output) ==
    [kind |-> "return", value |-> tag, text |-> output, num |-> -1,
     cause |-> ""]

\* raise exc(message); 'text' and 'num' are the values formatted into the
\* message, 'cause' the failed system operation for OSError/IOError
Raise(exc, text, num, cause) ==
    [kind |-> "raise", value |-> exc, text |-> text, num |-> num,
     cause |-> cause]

\* the context manager _OSErrorHandling: OSError and IOError raised in its
\* body are re-raised as PythonDialogOSError and PythonDialogIOError, any
\* other exception passes unchanged
_OSErrorHandling(exc) ==
    CASE exc = "OSError" -> "PythonDialogOSError"
      [] exc = "IOError" -> "PythonDialogIOError"
      [] OTHER -> exc

\* ------------------------------------------------------------------------
\* unicode.strip()
\* ------------------------------------------------------------------------
RECURSIVE LStrip(_)
LStrip(s) ==
    IF s # <<>> /\ Head(s) \in Whitespace THEN LStrip(Tail(s)) ELSE s

RECURSIVE RStrip(_)
RStrip(s) ==
    IF s # <<>> /\ s[Len(s)] \in Whitespace
    THEN RStrip(SubSeq(s, 1, Len(s) - 1))
    ELSE s

\* a faulty strip that keeps trailing whitespace
StripLeadingOnly(s) == LStrip(s)

Strip(s) == RStrip(LStrip(s))

\* ------------------------------------------------------------------------
\* Exit status translation of _wait_for_program_termination
\* ------------------------------------------------------------------------
\* os.waitpid()[1] as seen through WIFEXITED/WEXITSTATUS and
\* WIFSIGNALED/WTERMSIG
Exited(c) == [kind |-> "exited", val |-> c]
Signaled(s) == [kind |-> "signaled", val |-> s]
NoExitInfo == [kind |-> "none", val |-> -1]

\* a faulty translation: the exit-code comparisons are made on the raw
\* value without asking WIFEXITED first
TranslateIgnoringWIFEXITED(exit_info, child_output) ==
    LET ll_exit_code == exit_info.val IN
    IF ll_exit_code = _DIALOG_ERROR
    THEN Raise("DialogError", Strip(child_output), ll_exit_code, "")
    ELSE IF ll_exit_code = 127
    THEN Raise("PythonDialogErrorBeforeExecInChildProcess", <<>>, -1, "")
    ELSE IF ll_exit_code = 126
    THEN Raise("ProbablyPythonBug", <<>>, -1, "")
    ELSE IF ll_exit_code \in DOMAIN _dialog_exit_code_ll_to_hl
    THEN Return(_dialog_exit_code_ll_to_hl[ll_exit_code], child_output)
    ELSE Raise("PythonDialogBug", <<>>, ll_exit_code, "")

\* a faulty translation: the reserved statuses 126 and 127 are not tested
\* before the table lookup
TranslateWithoutReserved(exit_info, child_output) ==
    IF exit_info.kind = "exited"
    THEN LET ll_exit_code == exit_info.val IN
         IF ll_exit_code = _DIALOG_ERROR
         THEN Raise("DialogError", Strip(child_output), ll_exit_code, "")
         ELSE IF ll_exit_code \in DOMAIN _dialog_exit_code_ll_to_hl
         THEN Return(_dialog_exit_code_ll_to_hl[ll_exit_code], child_output)
         ELSE Raise("PythonDialogBug", <<>>, ll_exit_code, "")
    ELSE IF exit_info.kind = "signaled"
    THEN Raise("DialogTerminatedBySignal", <<>>, exit_info.val, "")
    ELSE Raise("PythonDialogBug", <<>>, -1, "")

\* the part of _wait_for_program_termination after os.waitpid()
Translate(exit_info, child_output) ==
    IF exit_info.kind = "exited"
    THEN LET ll_exit_code == exit_info.val IN
         IF ll_exit_code = _DIALOG_ERROR
         THEN Raise("DialogError", Strip(child_output), ll_exit_code, "")
         ELSE IF ll_exit_code = 127
         THEN Raise("PythonDialogErrorBeforeExecInChildProcess", <<>>, -1, "")
         ELSE IF ll_exit_code = 126
         THEN Raise("ProbablyPythonBug", <<>>, -1, "")
         ELSE IF ll_exit_code \in DOMAIN _dialog_exit_code_ll_to_hl
         THEN Return(_dialog_exit_code_ll_to_hl[ll_exit_code], child_output)
         ELSE Raise("PythonDialogBug", <<>>, ll_exit_code, "")
    ELSE IF exit_info.kind = "signaled"
    THEN Raise("DialogTerminatedBySignal", <<>>, exit_info.val, "")
    ELSE Raise("PythonDialogBug", <<>>, -1, "")

\* ------------------------------------------------------------------------
\* State
\* ------------------------------------------------------------------------
\* the descriptors of one invocation: both ends of the output-capture pipe
\* (child_output_rfd, child_output_wfd) and, for a gauge, both ends of the
\* pipe feeding the backend's standard input (child_stdin_rfd,
\* child_stdin_wfd)
FdNames == {"child_output_rfd", "child_output_wfd",
            "child_stdin_rfd", "child_stdin_wfd"}

VARIABLES
    pc,            \* position of the parent (the calling process)
    mode,          \* "perform" (_perform) or "gauge" (gauge_start/gauge_stop)
    fd,            \* parent: descriptor -> "none" | "open" | "closed"
    nclose,        \* parent: descriptor -> number of times it was released
    cpc,           \* position of the forked child
    ctodo,         \* child: descriptors still to close before exec
    cfd,           \* child: set of descriptors it holds
    diag,          \* child wrote a traceback to father_stderr
    toWrite,       \* backend: characters it will still write before exiting
    pipe,          \* content of the output-capture pipe
    child_output,  \* parent: text read so far from the output pipe
    exit_info,     \* termination status of the child, once terminated
    nwait,         \* parent: number of os.waitpid() calls made
    result,        \* outcome of the call (_perform, gauge_start, gauge_stop)
    gauge_in,      \* text written and flushed to the gauge's input channel
    stdin_buf,     \* text still held in the buffer of p["stdin"]
    other,         \* gauge session of another Dialog instance
    other_cfd,     \* descriptors of this session held by the other backend
    pbargs,        \* arguments of a progressbox/programbox call
    src_fd,        \* descriptor opened by _progressboxoid from file_path
    call,          \* a call of a helper method: its arguments and result
    dialog_persistent_arglist,  \* self.dialog_persistent_arglist
    debug,         \* the _debug_* attributes set by setup_debug
    gauge_process, \* self._gauge_process: the session gauge_stop acts on
    sessions,      \* the gauge sessions started on this instance
    added,         \* history: every element given to add_persistent_args
    updates        \* history: the records gauge_update handed to write()

auxVars == <<gauge_in, stdin_buf, other, other_cfd, pbargs, src_fd, call>>

instVars ==
    <<dialog_persistent_arglist, debug, gauge_process, sessions, added, updates>>

vars == <<pc, mode, fd, nclose, cpc, ctodo, cfd, diag, toWrite, pipe,
          child_output, exit_info, nwait, result, auxVars, instVars>>

parentVars == <<pc, mode, fd, nclose, child_output, nwait, result>>
childVars == <<cpc, ctodo, cfd, diag, toWrite, exit_info>>

\* no helper method has been called
NoCall == [fn |-> "none", n |-> 0]

\* no progressbox/programbox call has been made
NoArgs == [widget |-> "none"]

MaxSessions == 2

\* the attributes after __init__, which calls setup_debug(False): no log
\* file, debugging off
NoDebug ==
    [enabled |-> FALSE, logfile |-> "None", always_flush |-> FALSE,
     first_output |-> TRUE]

\* a gauge session that was not started
NoSession ==
    [proc |-> "none", stdin |-> "none", rfd |-> "none", nwait |-> 0]

Init ==
    /\ dialog_persistent_arglist = <<>>
    /\ added = <<>>
    /\ updates = <<>>
    /\ debug = NoDebug
    /\ gauge_process = 0
    /\ sessions = [i \in 1 .. MaxSessions |-> NoSession]
    /\ gauge_in = <<>>
    /\ stdin_buf = <<>>
    /\ other = "none"
    /\ other_cfd = {}
    /\ pbargs = NoArgs
    /\ src_fd = "none"
    /\ call = NoCall
    /\ pc = "idle"
    /\ mode = "none"
    /\ fd = [f \in FdNames |-> "none"]
    /\ nclose = [f \in FdNames |-> 0]
    /\ cpc = "none"
    /\ ctodo = <<>>
    /\ cfd = {}
    /\ diag = FALSE
    /\ toWrite = 0
    /\ pipe = <<>>
    /\ child_output = <<>>
    /\ exit_info = NoExitInfo
    /\ nwait = 0
    /\ result = NoResult

\* some process holds the write end of the output pipe: the parent's
\* child_output_wfd, the child's copy of it, or the child's redirected
\* stderr/stdout
OutputPipeHasWriter ==
    \/ fd["child_output_wfd"] = "open"
    \/ "child_output_wfd" \in cfd
    \/ "stdout_or_stderr" \in cfd

\* where a call goes when _perform or gauge_stop ends: _progressboxoid has
\* a 'finally' clause that closes the descriptor it opened itself
EndPc ==
    IF mode = "progressbox" /\ src_fd = "open" THEN "pb_finally" ELSE "done"

\* the call ends by raising exc; 'cause' names the failed system operation
Fail(exc, cause) ==
    /\ pc' = EndPc
    /\ result' = Raise(exc, <<>>, -1, cause)

\* os.close(f) in the parent succeeded
Closed(f) ==
    /\ fd' = [fd EXCEPT ![f] = "closed"]
    /\ nclose' = [nclose EXCEPT ![f] = @ + 1]

\* os.close(f) in the parent failed: whether the descriptor was released is
\* left unspecified by close(2)
CloseFailed(f) ==
    \/ UNCHANGED <<fd, nclose>>
    \/ Closed(f)

\* ------------------------------------------------------------------------
\* The parent: _perform, gauge_start, _call_program
\* ------------------------------------------------------------------------
\* _perform(): calls _call_program, then _wait_for_program_termination
Perform ==
    /\ pc = "idle"
    /\ mode' = "perform"
    /\ pc' = "cp_pipe"
    /\ UNCHANGED <<fd, nclose, child_output, nwait, result, pipe>>
    /\ UNCHANGED childVars
    /\ UNCHANGED auxVars
    /\ UNCHANGED instVars

\* gauge_start(): os.pipe() for the backend's stdin, inside _OSErrorHandling
GaugeStart ==
    /\ pc = "idle"
    /\ mode' = "gauge"
    /\ \/ /\ fd' = [fd EXCEPT !["child_stdin_rfd"] = "open",
                              !["child_stdin_wfd"] = "open"]
          /\ pc' = "cp_pipe"
          /\ UNCHANGED result
       \/ /\ Fail(_OSErrorHandling("OSError"), "pipe")
          /\ UNCHANGED fd
    /\ UNCHANGED <<nclose, child_output, nwait, pipe>>
    /\ UNCHANGED childVars
    /\ UNCHANGED auxVars
    /\ UNCHANGED instVars

\* the exception a failing os.fork() ends the call with: os.fork() is not
\* in a 'with _OSErrorHandling()' block of _call_program; gauge_start and
\* _progressboxoid make the call inside their own block, _perform does not
ForkError(m) ==
    IF m \in {"gauge", "progressbox"}
    THEN _OSErrorHandling("OSError")
    ELSE "OSError"

\* _call_program: os.pipe() inside _OSErrorHandling
CallPipe ==
    /\ pc = "cp_pipe"
    /\ \/ /\ fd' = [fd EXCEPT !["child_output_rfd"] = "open",
                              !["child_output_wfd"] = "open"]
          /\ pc' = "cp_fork"
          /\ UNCHANGED result
       \/ /\ Fail(_OSErrorHandling("OSError"), "pipe")
          /\ UNCHANGED fd
    /\ UNCHANGED <<mode, nclose, child_output, nwait, pipe>>
    /\ UNCHANGED childVars
    /\ UNCHANGED auxVars
    /\ UNCHANGED instVars

\* _call_program: os.fork(); the child starts with a copy of every open
\* descriptor and has close_fds + (child_output_rfd,) to close
\* a faulty gauge_start that passes no close_fds: the child keeps its copy
\* of child_stdin_wfd across the exec
CallForkWithoutCloseFds ==
    /\ pc = "cp_fork"
    /\ \/ /\ pc' = "cp_close"
          /\ cpc' = "c_close"
          /\ cfd' = {f \in FdNames : fd[f] = "open"}
          /\ ctodo' = <<"child_output_rfd">>
          /\ UNCHANGED result
       \/ /\ Fail(ForkError(mode), "fork")
          /\ UNCHANGED <<cpc, cfd, ctodo>>
    /\ UNCHANGED <<mode, fd, nclose, child_output, nwait, pipe>>
    /\ UNCHANGED <<diag, toWrite, exit_info>>
    /\ UNCHANGED auxVars
    /\ UNCHANGED instVars

CallFork ==
    /\ pc = "cp_fork"
    /\ \/ /\ pc' = "cp_close"
          /\ cpc' = "c_close"
          /\ cfd' = {f \in FdNames : fd[f] = "open"}
          /\ ctodo' = IF mode = "gauge"
                      THEN <<"child_stdin_wfd", "child_output_rfd">>
                      ELSE <<"child_output_rfd">>
          /\ UNCHANGED result
       \/ /\ Fail(ForkError(mode), "fork")
          /\ UNCHANGED <<cpc, cfd, ctodo>>
    /\ UNCHANGED <<mode, fd, nclose, child_output, nwait, pipe>>
    /\ UNCHANGED <<diag, toWrite, exit_info>>
    /\ UNCHANGED auxVars
    /\ UNCHANGED instVars

\* a faulty parent that keeps child_output_wfd open after the fork
CallCloseKeepsWriteEnd ==
    /\ pc = "cp_close"
    /\ pc' = IF mode = "gauge" THEN "gs_close" ELSE "w_read"
    /\ UNCHANGED <<mode, fd, nclose, child_output, nwait, pipe, result>>
    /\ UNCHANGED childVars
    /\ UNCHANGED auxVars
    /\ UNCHANGED instVars

\* _call_program in the parent: os.close(child_output_wfd) inside
\* _OSErrorHandling, then return (child_pid, child_output_rfd)
CallClose ==
    /\ pc = "cp_close"
    /\ \/ /\ Closed("child_output_wfd")
          /\ pc' = IF mode = "gauge" THEN "gs_close" ELSE "w_read"
          /\ UNCHANGED result
       \/ /\ CloseFailed("child_output_wfd")
          /\ Fail(_OSErrorHandling("OSError"), "close")
    /\ UNCHANGED <<mode, child_output, nwait, pipe>>
    /\ UNCHANGED childVars
    /\ UNCHANGED auxVars
    /\ UNCHANGED instVars

\* gauge_start after _call_program: os.close(child_stdin_rfd), then
\* self._gauge_process is set and the session is active
GaugeStartClose ==
    /\ pc = "gs_close"
    /\ \/ /\ Closed("child_stdin_rfd")
          /\ pc' = "gauge"
          /\ UNCHANGED result
       \/ /\ CloseFailed("child_stdin_rfd")
          /\ Fail(_OSErrorHandling("OSError"), "close")
    /\ UNCHANGED <<mode, child_output, nwait, pipe>>
    /\ UNCHANGED childVars
    /\ UNCHANGED auxVars
    /\ UNCHANGED instVars

\* ------------------------------------------------------------------------
\* The parent: gauge_stop and _wait_for_program_termination
\* ------------------------------------------------------------------------
\* a faulty gauge_stop that leaves the input channel open
GaugeStopKeepsChannel ==
    /\ pc = "gauge"
    /\ pc' = "w_read"
    /\ UNCHANGED <<mode, fd, nclose, child_output, nwait, pipe, result>>
    /\ UNCHANGED childVars
    /\ UNCHANGED auxVars
    /\ UNCHANGED instVars

\* gauge_stop: p["stdin"].close() inside _OSErrorHandling, then
\* _wait_for_program_termination(p["pid"], p["child_output_rfd"])
GaugeStop ==
    /\ pc = "gauge"
    /\ \/ /\ Closed("child_stdin_wfd")
          /\ pc' = "w_read"
          /\ UNCHANGED result
       \/ /\ CloseFailed("child_stdin_wfd")
          /\ Fail(_OSErrorHandling("IOError"), "close")
    /\ UNCHANGED <<mode, child_output, nwait, pipe>>
    /\ UNCHANGED childVars
    /\ UNCHANGED auxVars
    /\ UNCHANGED instVars

\* f.read(): one read(2) that returns the data available in the pipe
ReadOutput ==
    /\ pc = "w_read"
    /\ pipe # <<>>
    /\ child_output' = child_output \o pipe
    /\ pipe' = <<>>
    /\ UNCHANGED <<pc, mode, fd, nclose, nwait, result>>
    /\ UNCHANGED childVars
    /\ UNCHANGED auxVars
    /\ UNCHANGED instVars

\* a faulty parent that stops reading, and goes on to wait, before the end
\* of the stream
ReadEOFWithoutDrain ==
    /\ pc = "w_read"
    /\ \/ /\ Closed("child_output_rfd")
          /\ pc' = "w_waitpid"
          /\ UNCHANGED result
       \/ /\ CloseFailed("child_output_rfd")
          /\ Fail(_OSErrorHandling("IOError"), "close")
    /\ UNCHANGED <<mode, child_output, nwait, pipe>>
    /\ UNCHANGED childVars
    /\ UNCHANGED auxVars
    /\ UNCHANGED instVars

\* f.read() meets end-of-stream (the pipe is empty and no process holds
\* its write end); leaving the 'with' block closes f, hence
\* child_output_rfd
ReadEOF ==
    /\ pc = "w_read"
    /\ pipe = <<>>
    /\ ~OutputPipeHasWriter
    /\ \/ /\ Closed("child_output_rfd")
          /\ pc' = "w_waitpid"
          /\ UNCHANGED result
       \/ /\ CloseFailed("child_output_rfd")
          /\ Fail(_OSErrorHandling("IOError"), "close")
    /\ UNCHANGED <<mode, child_output, nwait, pipe>>
    /\ UNCHANGED childVars
    /\ UNCHANGED auxVars
    /\ UNCHANGED instVars

\* f.read() raises IOError; the 'with' block closes f on the way out
ReadFails ==
    /\ pc = "w_read"
    /\ Closed("child_output_rfd")
    /\ Fail(_OSErrorHandling("IOError"), "read")
    /\ UNCHANGED <<mode, child_output, nwait, pipe>>
    /\ UNCHANGED childVars
    /\ UNCHANGED auxVars
    /\ UNCHANGED instVars

\* what the caller of _wait_for_program_termination passes on: _perform
\* returns (exit_code, output), gauge_stop returns element [0] only
\* _widget_with_no_output, called by _progressboxoid, raises PythonDialogBug
\* for a non-empty output and returns the exit code otherwise
CallerResult(m, r) ==
    IF m = "gauge" /\ r.kind = "return"
    THEN Return(r.value, <<>>)
    ELSE IF m = "progressbox" /\ r.kind = "return"
    THEN IF r.text # <<>>
         THEN Raise("PythonDialogBug", r.text, -1, "")
         ELSE Return(r.value, <<>>)
    ELSE r

\* os.waitpid(child_pid, 0) returns once the child has terminated; the
\* status is then translated
WaitpidReturns ==
    /\ pc = "w_waitpid"
    /\ cpc = "zombie"
    /\ nwait' = nwait + 1
    /\ cpc' = "reaped"
    /\ pc' = EndPc
    /\ result' = CallerResult(mode, Translate(exit_info, child_output))
    /\ UNCHANGED <<mode, fd, nclose, child_output, pipe>>
    /\ UNCHANGED <<ctodo, cfd, diag, toWrite, exit_info>>
    /\ UNCHANGED auxVars
    /\ UNCHANGED instVars

\* os.waitpid() raises OSError; the call is in no _OSErrorHandling block of
\* _wait_for_program_termination, _perform or gauge_stop; _progressboxoid
\* calls _widget_with_no_output inside its own block
WaitpidError(m) ==
    IF m = "progressbox" THEN _OSErrorHandling("OSError") ELSE "OSError"

WaitpidFails ==
    /\ pc = "w_waitpid"
    /\ nwait' = nwait + 1
    /\ Fail(WaitpidError(mode), "waitpid")
    /\ UNCHANGED <<mode, fd, nclose, child_output, pipe>>
    /\ UNCHANGED childVars
    /\ UNCHANGED auxVars
    /\ UNCHANGED instVars

\* ------------------------------------------------------------------------
\* The forked child of _call_program
\* ------------------------------------------------------------------------
ChildAlive ==
    cpc \in {"c_close", "c_dup", "c_dup2", "c_dup2_stdin", "c_exec",
             "running", "escaped"}

\* the process is gone: the kernel closes every descriptor it held
Terminated(info) ==
    /\ cpc' = "zombie"
    /\ exit_info' = info
    /\ cfd' = {}

\* the 'except:' clause of the child: print the traceback to
\* father_stderr, close it, os._exit(127).  father_stderr is assigned by
\* the statement after the close loop; when the failure came before that
\* assignment, evaluating the name raises UnboundLocalError inside the
\* clause and the exception leaves _call_program in the child
ChildExcept ==
    /\ IF "father_stderr" \in cfd
       THEN /\ diag' = TRUE
            /\ Terminated(Exited(127))
       ELSE /\ cpc' = "escaped"
            /\ UNCHANGED <<diag, exit_info, cfd>>
    /\ UNCHANGED <<ctodo, toWrite>>

\* for fd in close_fds + (child_output_rfd,): os.close(fd)
ChildClose ==
    /\ cpc = "c_close"
    /\ \/ /\ cfd' = cfd \ {Head(ctodo)}
          /\ ctodo' = Tail(ctodo)
          /\ cpc' = IF Tail(ctodo) = <<>> THEN "c_dup" ELSE "c_close"
          /\ UNCHANGED <<diag, toWrite, exit_info>>
       \/ ChildExcept
    /\ UNCHANGED <<pipe>>
    /\ UNCHANGED parentVars
    /\ UNCHANGED auxVars
    /\ UNCHANGED instVars

\* father_stderr = open(os.dup(2), mode="wb")
ChildDup ==
    /\ cpc = "c_dup"
    /\ \/ /\ cfd' = cfd \cup {"father_stderr"}
          /\ cpc' = "c_dup2"
          /\ UNCHANGED <<ctodo, diag, toWrite, exit_info>>
       \/ ChildExcept
    /\ UNCHANGED <<pipe>>
    /\ UNCHANGED parentVars
    /\ UNCHANGED auxVars
    /\ UNCHANGED instVars

\* os.dup2(child_output_wfd, 1 if self.use_stdout else 2)
ChildDup2 ==
    /\ cpc = "c_dup2"
    /\ \/ /\ cfd' = cfd \cup {"stdout_or_stderr"}
          /\ cpc' = IF mode \in {"gauge", "progressbox"}
                    THEN "c_dup2_stdin"
                    ELSE "c_exec"
          /\ UNCHANGED <<ctodo, diag, toWrite, exit_info>>
       \/ ChildExcept
    /\ UNCHANGED <<pipe>>
    /\ UNCHANGED parentVars
    /\ UNCHANGED auxVars
    /\ UNCHANGED instVars

\* if redir_child_stdin_from_fd is not None: os.dup2(it, 0)
ChildDup2Stdin ==
    /\ cpc = "c_dup2_stdin"
    /\ \/ /\ cfd' = cfd \cup {"stdin"}
          /\ cpc' = "c_exec"
          /\ UNCHANGED <<ctodo, diag, toWrite, exit_info>>
       \/ ChildExcept
    /\ UNCHANGED <<pipe>>
    /\ UNCHANGED parentVars
    /\ UNCHANGED auxVars
    /\ UNCHANGED instVars

\* os.execve(self._dialog_prg, arglist, new_environ); on success the
\* backend runs and will write some amount of output before it exits
ChildExec ==
    /\ cpc = "c_exec"
    /\ \/ /\ cpc' = "running"
          /\ toWrite' \in 0 .. MaxOut
          /\ UNCHANGED <<ctodo, cfd, diag, exit_info>>
       \/ ChildExcept
    /\ UNCHANGED <<pipe>>
    /\ UNCHANGED parentVars
    /\ UNCHANGED auxVars
    /\ UNCHANGED instVars

\* ------------------------------------------------------------------------
\* The backend and the operating system
\* ------------------------------------------------------------------------
\* the backend writes one character to the captured stream; write(2)
\* blocks while the pipe is full
BackendWrite ==
    /\ cpc = "running"
    /\ toWrite > 0
    /\ Len(pipe) < PipeCap
    /\ \E ch \in OutChars : pipe' = Append(pipe, ch)
    /\ toWrite' = toWrite - 1
    /\ UNCHANGED <<cpc, ctodo, cfd, diag, exit_info>>
    /\ UNCHANGED parentVars
    /\ UNCHANGED auxVars
    /\ UNCHANGED instVars

\* the backend has written its output and exits with some status
BackendExit ==
    /\ cpc = "running"
    /\ toWrite = 0
    /\ \E c \in ExitStatuses : Terminated(Exited(c))
    /\ UNCHANGED <<ctodo, diag, toWrite, pipe>>
    /\ UNCHANGED parentVars
    /\ UNCHANGED auxVars
    /\ UNCHANGED instVars

\* a child that left _call_program by an exception runs the caller's code;
\* it may end at any time with any status
EscapedChildExit ==
    /\ cpc = "escaped"
    /\ \E c \in ExitStatuses : Terminated(Exited(c))
    /\ UNCHANGED <<ctodo, diag, toWrite, pipe>>
    /\ UNCHANGED parentVars
    /\ UNCHANGED auxVars
    /\ UNCHANGED instVars

\* a signal terminates the child, before or after the exec
ChildKilled ==
    /\ ChildAlive
    /\ \E s \in Signals : Terminated(Signaled(s))
    /\ UNCHANGED <<ctodo, diag, toWrite, pipe>>
    /\ UNCHANGED parentVars
    /\ UNCHANGED auxVars
    /\ UNCHANGED instVars

\* ------------------------------------------------------------------------
\* Specifications
\* ------------------------------------------------------------------------
Next ==
    \/ Perform
    \/ GaugeStart
    \/ CallPipe
    \/ CallFork
    \/ CallClose
    \/ GaugeStartClose
    \/ GaugeStop
    \/ ReadOutput
    \/ ReadEOF
    \/ ReadFails
    \/ WaitpidReturns
    \/ WaitpidFails
    \/ ChildClose
    \/ ChildDup
    \/ ChildDup2
    \/ ChildDup2Stdin
    \/ ChildExec
    \/ BackendWrite
    \/ BackendExit
    \/ EscapedChildExit
    \/ ChildKilled

Spec == Init /\ [][Next]_vars

\* the scheduler runs every process that can take a step: the parent is
\* never suspended forever while a system call of it can complete, and
\* neither is the backend; no failure and no signal is ever forced
Fairness ==
    /\ WF_vars(CallPipe)
    /\ WF_vars(CallFork)
    /\ WF_vars(CallClose)
    /\ WF_vars(ReadOutput)
    /\ WF_vars(ReadEOF)
    /\ WF_vars(WaitpidReturns)
    /\ WF_vars(BackendWrite)
    /\ WF_vars(BackendExit)

FairSpec == Init /\ [][Next]_vars /\ Fairness

TypeOK ==
    /\ pc \in {"idle", "cp_pipe", "cp_fork", "cp_close", "gs_close",
               "gauge", "w_read", "w_waitpid", "done",
               "o_idle", "o_gauge", "o_done", "pb_open", "pb_finally"}
    /\ mode \in {"none", "perform", "gauge", "progressbox"}
    /\ src_fd \in {"none", "caller", "open", "closed"}
    /\ other \in {"none", "early", "late", "early_stopping",
                  "late_stopping", "stopped"}
    /\ other_cfd \subseteq FdNames
    /\ fd \in [FdNames -> {"none", "open", "closed"}]
    /\ cpc \in {"none", "c_close", "c_dup", "c_dup2", "c_dup2_stdin",
                "c_exec", "running", "escaped", "zombie", "reaped"}
    /\ toWrite \in 0 .. MaxOut
    /\ Len(pipe) <= PipeCap
    /\ Len(child_output) <= MaxOut
    /\ nwait \in 0 .. 1

\* ------------------------------------------------------------------------
\* Properties
\* ------------------------------------------------------------------------
\* _wait_for_program_termination ran to its end on a terminated child
Translated == pc = "done" /\ cpc = "reaped"

OutputPipeFds == {"child_output_rfd", "child_output_wfd"}

\* the documented table of normal exit statuses and outcome tags
DocumentedTag(c) ==
    CASE c = 0 -> "ok"
      [] c = 1 -> "cancel"
      [] c = 2 -> "esc"
      [] c = 4 -> "extra"
      [] c = 5 -> "help"
      [] c = 6 -> "help"
DocumentedCodes == {0, 1, 2, 4, 5, 6}

\* C1: a child that exited normally with status c yields the tag of the
\* fixed table 0->ok, 1->cancel, 2->esc, 4->extra, 5->help, 6->help; a
\* status outside the table other than 3, 126, 127 raises PythonDialogBug;
\* a returned tag is always one of ok, cancel, esc, extra, help
C1_ExitStatusTable ==
    (Translated /\ exit_info.kind = "exited") =>
        LET c == exit_info.val IN
        /\ c \in DocumentedCodes =>
              /\ result.kind = "return"
              /\ result.value = DocumentedTag(c)
        /\ c \notin DocumentedCodes \cup {3, 126, 127} =>
              /\ result.kind = "raise"
              /\ result.value = "PythonDialogBug"
        /\ result.kind = "return" =>
              result.value \in {"ok", "cancel", "esc", "extra", "help"}

C1_Witness ==
    /\ Translated
    /\ exit_info = Exited(6)
    /\ result.kind = "return"
    /\ result.value = "help"

\* C2: exit statuses 127 and 126 raise
\* PythonDialogErrorBeforeExecInChildProcess and ProbablyPythonBug whatever
\* the output, and neither is a key of the low-level-to-high-level table
C2_ReservedStatuses ==
    /\ 126 \notin DOMAIN _dialog_exit_code_ll_to_hl
    /\ 127 \notin DOMAIN _dialog_exit_code_ll_to_hl
    /\ (Translated /\ exit_info = Exited(127)) =>
          /\ result.kind = "raise"
          /\ result.value = "PythonDialogErrorBeforeExecInChildProcess"
    /\ (Translated /\ exit_info = Exited(126)) =>
          /\ result.kind = "raise"
          /\ result.value = "ProbablyPythonBug"

C2_Witness ==
    /\ Translated
    /\ exit_info = Exited(127)
    /\ child_output # <<>>
    /\ result.value = "PythonDialogErrorBeforeExecInChildProcess"

\* t is s without its leading and trailing whitespace
IsStripped(t, s) ==
    \E i, j \in 0 .. Len(s) :
        /\ i + j <= Len(s)
        /\ t = SubSeq(s, i + 1, Len(s) - j)
        /\ \A k \in 1 .. i : s[k] \in Whitespace
        /\ \A k \in (Len(s) - j + 1) .. Len(s) : s[k] \in Whitespace
        /\ t # <<>> => (t[1] \notin Whitespace /\ t[Len(t)] \notin Whitespace)

\* C3: exit status 3 (DIALOG_ERROR) raises DialogError whose message holds
\* the collected output with leading and trailing whitespace stripped; no
\* tag is returned
C3_BackendError ==
    (Translated /\ exit_info = Exited(3)) =>
        /\ result.kind = "raise"
        /\ result.value = "DialogError"
        /\ IsStripped(result.text, child_output)

C3_Witness ==
    /\ Translated
    /\ exit_info = Exited(3)
    /\ child_output = <<" ", "a", " ">>
    /\ result.value = "DialogError"
    /\ result.text = <<"a">>

\* C4: a child terminated by a signal raises DialogTerminatedBySignal with
\* the signal number, whatever exit code the number would compare equal
\* to; no tag is returned
C4_TerminatedBySignal ==
    (Translated /\ exit_info.kind = "signaled") =>
        /\ result.kind = "raise"
        /\ result.value = "DialogTerminatedBySignal"
        /\ result.num = exit_info.val

C4_Witness ==
    /\ Translated
    /\ exit_info = Signaled(_DIALOG_ERROR)
    /\ result.value = "DialogTerminatedBySignal"
    /\ result.num = 3

\* C5: once the backend runs under _perform, whatever amount of output it
\* writes, _perform eventually returns or raises, and the backend is not
\* left blocked on a full pipe by a _perform that is still in progress
C5_PerformNeverDeadlocks ==
    /\ (mode = "perform" /\ cpc = "running") ~> (pc = "done")
    /\ (mode = "perform" /\ cpc = "running") ~>
          (cpc \in {"zombie", "reaped"} \/ result.kind = "raise")

C5_Witness ==
    /\ mode = "perform"
    /\ Translated
    /\ result.kind = "return"
    /\ Len(result.text) > PipeCap

\* C6: when the call is over, each descriptor of the output-capture pipe
\* has been closed exactly once by the parent
C6_OutputPipeClosedOnce ==
    (pc = "done" /\ fd["child_output_rfd"] # "none") =>
        \A f \in OutputPipeFds : fd[f] = "closed" /\ nclose[f] = 1

PreExec == {"c_close", "c_dup", "c_dup2", "c_dup2_stdin", "c_exec"}

\* C7: a step of the child that fails between fork and exec ends with the
\* diagnostic written and exit status 127; the child never leaves
\* _call_program by an exception
C7_ChildFailureExits127 ==
    [][(/\ cpc \in PreExec
        /\ cpc' \notin PreExec \cup {"running"}
        /\ exit_info'.kind # "signaled")
       => (cpc' = "zombie" /\ exit_info' = Exited(127) /\ diag')]_vars

\* C8: a failed system operation of the parent surfaces as
\* PythonDialogOSError or PythonDialogIOError
C8_SystemErrorsWrapped ==
    (pc = "done" /\ result.kind = "raise" /\ result.cause # "") =>
        result.value \in {"PythonDialogOSError", "PythonDialogIOError"}

\* C9: gauge_stop that collected non-empty output raises PythonDialogBug
\* instead of returning a tag
C9_GaugeOutputIsBug ==
    (/\ mode = "gauge"
     /\ Translated
     /\ child_output # <<>>
     /\ exit_info.kind = "exited"
     /\ exit_info.val \in DocumentedCodes)
    => (result.kind = "raise" /\ result.value = "PythonDialogBug")

\* C10: gauge_stop closes the input channel before it reads or waits,
\* waits exactly once, and returns the tag of the backend's exit status
\* (ok for status 0)
C10_GaugeStopOrder ==
    /\ (mode = "gauge" /\ (pc \in {"w_read", "w_waitpid"} \/ nwait > 0)) =>
          /\ fd["child_stdin_wfd"] = "closed"
          /\ nclose["child_stdin_wfd"] = 1
    /\ (mode = "gauge" /\ Translated) =>
          /\ nwait = 1
          /\ (exit_info.kind = "exited"
                /\ exit_info.val \in DocumentedCodes) =>
                result = Return(DocumentedTag(exit_info.val), <<>>)

C10_Witness ==
    /\ mode = "gauge"
    /\ Translated
    /\ exit_info = Exited(0)
    /\ nwait = 1
    /\ result.kind = "return"
    /\ result.value = "ok"

(***************************************************************************)
(* A gauge session whose backend runs until its standard input reaches     *)
(* the end of the stream.                                                  *)
(***************************************************************************)

\* some process still holds a write end of the backend's input pipe
StdinPipeHasWriter ==
    \/ fd["child_stdin_wfd"] = "open"
    \/ "child_stdin_wfd" \in cfd
    \/ "child_stdin_wfd" \in other_cfd

\* the backend reads the end of the stream on its standard input, which
\* takes that every write end of the pipe is closed, and exits
BackendExitOnEOF ==
    /\ cpc = "running"
    /\ toWrite = 0
    /\ ~StdinPipeHasWriter
    /\ \E c \in ExitStatuses : Terminated(Exited(c))
    /\ UNCHANGED <<ctodo, diag, toWrite, pipe>>
    /\ UNCHANGED parentVars
    /\ UNCHANGED auxVars
    /\ UNCHANGED instVars

GaugeNext ==
    \/ GaugeStart
    \/ CallPipe
    \/ CallFork
    \/ CallClose
    \/ GaugeStartClose
    \/ GaugeStop
    \/ ReadOutput
    \/ ReadEOF
    \/ ReadFails
    \/ WaitpidReturns
    \/ WaitpidFails
    \/ ChildClose
    \/ ChildDup
    \/ ChildDup2
    \/ ChildDup2Stdin
    \/ ChildExec
    \/ BackendWrite
    \/ BackendExitOnEOF
    \/ EscapedChildExit
    \/ ChildKilled

GaugeSpec == Init /\ [][GaugeNext]_vars

\* the parent is never suspended forever while a system call of it can
\* complete, and neither is the backend; no failure is ever forced
GaugeFairness ==
    /\ WF_vars(ReadOutput)
    /\ WF_vars(ReadEOF)
    /\ WF_vars(WaitpidReturns)
    /\ WF_vars(BackendWrite)
    /\ WF_vars(BackendExitOnEOF)

GaugeFairSpec == Init /\ [][GaugeNext]_vars /\ GaugeFairness

\* gauge_start has returned and gauge_stop has not been called
GaugeActive == mode = "gauge" /\ pc = "gauge"

\* gauge_stop has closed the channel and reads or waits
GaugeStopping == mode = "gauge" /\ pc \in {"w_read", "w_waitpid"}

\* the parent holds the only write end of the input pipe and no read end
ParentHoldsOnlyWriteEnd ==
    /\ (mode = "gauge" /\ cpc = "running") =>
          /\ "child_stdin_wfd" \notin cfd
          /\ "stdin" \in cfd
    /\ GaugeActive =>
          /\ fd["child_stdin_wfd"] = "open"
          /\ fd["child_stdin_rfd"] = "closed"

\* C11: once gauge_start has returned the parent's channel is the only
\* open write end of the backend's input pipe (the child closed its copy
\* before the exec, the parent closed its copy of the read end), and
\* after gauge_stop has closed the channel a backend that exits on the end
\* of the stream terminates and gauge_stop returns
C11_GaugeStopReturns ==
    /\ []ParentHoldsOnlyWriteEnd
    /\ (GaugeStopping /\ cpc = "running") ~> (pc = "done")

C11_Witness ==
    /\ mode = "gauge"
    /\ Translated
    /\ exit_info.kind = "exited"
    /\ ~StdinPipeHasWriter
    /\ fd["child_stdin_rfd"] = "closed"
    /\ result.kind = "return"

(***************************************************************************)
(* A gauge session of a second Dialog instance, run by the same parent     *)
(* process.  It is followed as far as the descriptors of the first session *)
(* are concerned: `other' is "early" when its gauge_start came before the  *)
(* first session's, "late" when it came after.                             *)
(***************************************************************************)

\* the parent is between two calls
ParentFree == pc \in {"idle", "gauge", "done"}

\* the other backend's input pipe has a write end outside the parent: the
\* child of this session was forked while the other session was active
\* and closes only its own close_fds
OtherStdinHeldByChild ==
    /\ other \in {"early", "early_stopping"}
    /\ cpc \notin {"none", "zombie", "reaped"}

\* gauge_start of the other instance: its child is forked from the parent
\* and inherits every descriptor the parent has open at that time; it
\* closes its own close_fds only
OtherGaugeStart ==
    /\ ParentFree
    /\ other = "none"
    /\ other' = IF pc = "idle" THEN "early" ELSE "late"
    /\ other_cfd' = {f \in FdNames : fd[f] = "open"}
    /\ UNCHANGED <<gauge_in, stdin_buf, pbargs, src_fd, call>>
    /\ UNCHANGED parentVars
    /\ UNCHANGED childVars
    /\ UNCHANGED pipe
    /\ UNCHANGED instVars

\* gauge_stop of the other instance closes its channel and blocks until
\* its backend has terminated
OtherGaugeStop ==
    /\ ParentFree
    /\ other \in {"early", "late"}
    /\ other' = IF other = "early" THEN "early_stopping" ELSE "late_stopping"
    /\ pc' = CASE pc = "idle" -> "o_idle"
               [] pc = "gauge" -> "o_gauge"
               [] pc = "done" -> "o_done"
    /\ UNCHANGED <<mode, fd, nclose, child_output, nwait, result>>
    /\ UNCHANGED <<gauge_in, stdin_buf, other_cfd, pbargs, src_fd, call>>
    /\ UNCHANGED childVars
    /\ UNCHANGED pipe
    /\ UNCHANGED instVars

\* the other backend has read the end of its input and has exited: the
\* kernel closes the descriptors it held and gauge_stop returns
OtherGaugeStopReturns ==
    /\ pc \in {"o_idle", "o_gauge", "o_done"}
    /\ ~OtherStdinHeldByChild
    /\ other' = "stopped"
    /\ other_cfd' = {}
    /\ pc' = CASE pc = "o_idle" -> "idle"
               [] pc = "o_gauge" -> "gauge"
               [] pc = "o_done" -> "done"
    /\ UNCHANGED <<mode, fd, nclose, child_output, nwait, result>>
    /\ UNCHANGED <<gauge_in, stdin_buf, pbargs, src_fd, call>>
    /\ UNCHANGED childVars
    /\ UNCHANGED pipe
    /\ UNCHANGED instVars

TwoGaugeNext ==
    \/ GaugeNext
    \/ OtherGaugeStart
    \/ OtherGaugeStop
    \/ OtherGaugeStopReturns

TwoGaugeSpec == Init /\ [][TwoGaugeNext]_vars

\* the backend of the other session is running
OtherRunning == other \in {"early", "late"}

\* C12: two gauge sessions on two Dialog instances do not interfere: no
\* other backend holds a descriptor of a session, so when the session is
\* stopped while the other one runs, its backend's input pipe has no write
\* end left and gauge_stop returns with its own backend's outcome
C12_SessionsIndependent ==
    /\ OtherRunning => other_cfd = {}
    /\ (GaugeStopping /\ cpc = "running" /\ OtherRunning) =>
          ~StdinPipeHasWriter

(***************************************************************************)
(* Text helpers of the Python runtime, computed as Python computes them.   *)
(***************************************************************************)

\* every text over the characters chars of at most n characters
Strs(chars, n) == UNION {[1 .. k -> chars] : k \in 0 .. n}

DigitChars == <<"0", "1", "2", "3", "4", "5", "6", "7", "8", "9">>

RECURSIVE NatToStr(_)
NatToStr(n) ==
    IF n < 10
    THEN <<DigitChars[n + 1]>>
    ELSE NatToStr(n \div 10) \o <<DigitChars[(n % 10) + 1]>>

\* "{0}".format(n) for an int n: decimal digits, "-" for a negative one
IntToStr(n) == IF n < 0 THEN <<"-">> \o NatToStr(0 - n) ELSE NatToStr(n)

RECURSIVE SplitLinesFrom(_, _, _, _)
SplitLinesFrom(s, i, cur, acc) ==
    IF i > Len(s)
    THEN IF cur = <<>> THEN acc ELSE Append(acc, cur)
    ELSE IF s[i] = "\n"
         THEN SplitLinesFrom(s, i + 1, <<>>, Append(acc, cur))
         ELSE SplitLinesFrom(s, i + 1, Append(cur, s[i]), acc)

\* s.splitlines(): the lines of s without their terminators; a final line
\* needs no terminator and a terminator at the end opens no new line
splitlines(s) == SplitLinesFrom(s, 1, <<>>, <<>>)

\* outcome of a call of a helper method: a value or an exception
RetValue(shape, a, b, l) ==
    [kind |-> "value", shape |-> shape, a |-> a, b |-> b, l |-> l]
RetNone == RetValue("None", <<>>, <<>>, <<>>)
RetStr(s) == RetValue("str", s, <<>>, <<>>)
RetPair(a, b) == RetValue("pair", a, b, <<>>)
RetList(a, l) == RetValue("list", a, <<>>, l)
RetRaise(exc) ==
    [kind |-> "raise", shape |-> exc, a |-> <<>>, b |-> <<>>, l |-> <<>>]

(***************************************************************************)
(* gauge_update on an active gauge session.                                *)
(***************************************************************************)
MaxTextLen == 2
MaxUpdates == 2

GaugeChars == {"a", "\n"}
GaugeTexts == Strs(GaugeChars, MaxTextLen)
Percents == {0 - 1, 0, 100}

\* the percent argument: an int, or an object of another type
PercentArgs ==
    [isint : {TRUE}, val : Percents] \cup {[isint |-> FALSE, val |-> 0]}

\* "XXX\n{0}\n{1}\nXXX\n".format(percent, text) or "{0}\n".format(percent)
gauge_data(percent, text, update_text) ==
    IF update_text
    THEN <<"X", "X", "X", "\n">> \o IntToStr(percent) \o <<"\n">> \o text
            \o <<"\n", "X", "X", "X", "\n">>
    ELSE IntToStr(percent) \o <<"\n">>

GaugeUpdateCall(n, percent, text, update_text, ret) ==
    [fn |-> "gauge_update", n |-> n, percent |-> percent, text |-> text,
     update_text |-> update_text,
     data |-> gauge_data(percent.val, text, update_text), ret |-> ret]

\* a faulty gauge_update that writes the record and returns without
\* flushing
GaugeUpdateWithoutFlush ==
    /\ pc = "gauge"
    /\ call.n < MaxUpdates
    /\ \E percent \in PercentArgs, text \in GaugeTexts,
          update_text \in BOOLEAN :
         LET n == call.n + 1
             data == gauge_data(percent.val, text, update_text)
         IN /\ percent.isint
            /\ stdin_buf' = stdin_buf \o data
            /\ call' = GaugeUpdateCall(n, percent, text, update_text, RetNone)
            /\ updates' = Append(updates, [data |-> data, returned |-> TRUE])
            /\ UNCHANGED gauge_in
    /\ UNCHANGED <<other, other_cfd, pbargs, src_fd>>
    /\ UNCHANGED parentVars
    /\ UNCHANGED childVars
    /\ UNCHANGED pipe
    /\ UNCHANGED <<dialog_persistent_arglist, debug, gauge_process, sessions, added>>

\* gauge_update(percent, text, update_text): the record is written to
\* p["stdin"] and flushed; a failed flush leaves it in the buffer
GaugeUpdate ==
    /\ pc = "gauge"
    /\ call.n < MaxUpdates
    /\ \E percent \in PercentArgs, text \in GaugeTexts,
          update_text \in BOOLEAN :
         LET n == call.n + 1
             data == gauge_data(percent.val, text, update_text)
         IN IF ~percent.isint
            THEN /\ call' = GaugeUpdateCall(n, percent, text, update_text,
                                            RetRaise("BadPythonDialogUsage"))
                 /\ UNCHANGED <<gauge_in, stdin_buf, updates>>
            ELSE \/ /\ gauge_in' = gauge_in \o stdin_buf \o data
                    /\ stdin_buf' = <<>>
                    /\ call' = GaugeUpdateCall(n, percent, text, update_text,
                                               RetNone)
                    /\ updates' = Append(updates, [data |-> data,
                                                   returned |-> TRUE])
                 \/ /\ stdin_buf' = stdin_buf \o data
                    /\ call' = GaugeUpdateCall(n, percent, text, update_text,
                                  RetRaise(_OSErrorHandling("IOError")))
                    /\ updates' = Append(updates, [data |-> data,
                                                   returned |-> FALSE])
                    /\ UNCHANGED gauge_in
    /\ UNCHANGED <<other, other_cfd, pbargs, src_fd>>
    /\ UNCHANGED parentVars
    /\ UNCHANGED childVars
    /\ UNCHANGED pipe
    /\ UNCHANGED <<dialog_persistent_arglist, debug, gauge_process, sessions, added>>

\* a session that is started and updated; its stop, and the end of a child
\* that escaped from _call_program, are followed in GaugeSpec
UpdateNext ==
    \/ GaugeStart
    \/ CallPipe
    \/ CallFork
    \/ CallClose
    \/ GaugeStartClose
    \/ ChildClose
    \/ ChildDup
    \/ ChildDup2
    \/ ChildDup2Stdin
    \/ ChildExec
    \/ BackendWrite
    \/ ChildKilled
    \/ GaugeUpdate

UpdateSpec == Init /\ [][UpdateNext]_vars

\* the parent's side of a session alone: the session is started and
\* updated
StreamNext ==
    \/ GaugeStart
    \/ CallPipe
    \/ CallFork
    \/ CallClose
    \/ GaugeStartClose
    \/ GaugeUpdate

StreamSpec == Init /\ [][StreamNext]_vars

\* the characters of a text
Chars(s) == {s[i] : i \in 1 .. Len(s)}

DigitSet == {DigitChars[i] : i \in 1 .. Len(DigitChars)}

\* a decimal numeral with an optional minus sign
IsNumeral(s) ==
    /\ s # <<>>
    /\ LET d == IF s[1] = "-" THEN Tail(s) ELSE s
       IN d # <<>> /\ Chars(d) \subseteq DigitSet

RECURSIVE DigitsToNat(_)
DigitsToNat(d) ==
    IF d = <<>>
    THEN 0
    ELSE LET last == d[Len(d)]
             v == CHOOSE k \in 0 .. 9 : DigitChars[k + 1] = last
         IN DigitsToNat(SubSeq(d, 1, Len(d) - 1)) * 10 + v

StrToInt(s) == IF s[1] = "-" THEN 0 - DigitsToNat(Tail(s)) ELSE DigitsToNat(s)

Sentinel == <<"X", "X", "X">>

Malformed == [ok |-> FALSE, percent |-> 0, has_text |-> FALSE, text |-> <<>>]

\* the streaming grammar: a record is newline-terminated and is either one
\* line holding a percentage, or four lines: sentinel, percentage, text,
\* sentinel
StreamingGrammarDecode(data) ==
    LET lines == splitlines(data)
    IN IF data = <<>> \/ data[Len(data)] # "\n"
       THEN Malformed
       ELSE IF Len(lines) = 1 /\ IsNumeral(lines[1])
       THEN [ok |-> TRUE, percent |-> StrToInt(lines[1]),
             has_text |-> FALSE, text |-> <<>>]
       ELSE IF /\ Len(lines) = 4
               /\ lines[1] = Sentinel
               /\ lines[4] = Sentinel
               /\ IsNumeral(lines[2])
       THEN [ok |-> TRUE, percent |-> StrToInt(lines[2]),
             has_text |-> TRUE, text |-> lines[3]]
       ELSE Malformed

\* the record of the gauge_update call decodes to the submitted percentage
\* and, for the four-line block, to the submitted text
RecordRoundTrips ==
    LET r == StreamingGrammarDecode(call.data)
    IN /\ r.ok
       /\ r.percent = call.percent.val
       /\ r.has_text = call.update_text
       /\ call.update_text => r.text = call.text

\* C13: for every integer percentage and every caption text, decoding the
\* record written by gauge_update (one percentage line, or the four-line
\* block when update_text is set) reconstructs the submitted percentage
\* and text
C13_RoundTripAnyText ==
    (call.fn = "gauge_update" /\ call.percent.isint) => RecordRoundTrips

\* the records that do round-trip: those whose text holds no line break
RoundTripOneLineText ==
    (/\ call.fn = "gauge_update"
     /\ call.percent.isint
     /\ call.update_text => "\n" \notin Chars(call.text))
    => RecordRoundTrips

RoundTripOneLineTextReached ==
    /\ call.fn = "gauge_update"
    /\ call.percent = [isint |-> TRUE, val |-> 0 - 1]
    /\ call.update_text
    /\ call.text = <<"a", "a">>
    /\ call.ret = RetNone
    /\ gauge_in = call.data
    /\ RecordRoundTrips

(***************************************************************************)
(* progressbox and programbox: a stream shown in a box, read from a file   *)
(* that _progressboxoid opens or from a descriptor of the caller.          *)
(***************************************************************************)

\* _dialog_version_check raises InadequateBackendVersion when the backend
\* is dialog and its cached version is below the minimum; too_old stands
\* for 'self.cached_backend_version < minimum_version'
_dialog_version_check(compat, too_old) == compat = "dialog" /\ too_old

\* the backend of the Dialog instance: cached_backend_version is None for
\* Xdialog and a version, below 1.1 or not, for dialog
Backends ==
    {[compat |-> "dialog", too_old |-> FALSE],
     [compat |-> "dialog", too_old |-> TRUE],
     [compat |-> "Xdialog", too_old |-> FALSE]}

\* a faulty test that lets a call with both file_path and fd through
BadUsageNeitherOnly(file_path, fdarg) == ~file_path /\ ~fdarg

\* the first test of _progressboxoid: file_path and fd both None, or both
\* not None
BadUsage(file_path, fdarg) ==
    \/ (~file_path /\ ~fdarg)
    \/ (file_path /\ fdarg)

PbArgs(widget, file_path, fdarg, compat, too_old) ==
    [widget |-> widget, file_path |-> file_path, fd |-> fdarg,
     compat |-> compat, too_old |-> too_old]

\* _progressboxoid up to the first system call
_progressboxoid(file_path, fdarg) ==
    IF BadUsage(file_path, fdarg)
    THEN /\ pc' = "done"
         /\ result' = Raise("BadPythonDialogUsage", <<>>, -1, "")
         /\ UNCHANGED src_fd
    ELSE IF file_path /\ fdarg
    THEN /\ pc' = "done"
         /\ result' = Raise("PythonDialogBug", <<>>, -1, "")
         /\ UNCHANGED src_fd
    ELSE IF file_path
    THEN /\ pc' = "pb_open"
         /\ UNCHANGED <<result, src_fd>>
    ELSE /\ pc' = "cp_pipe"
         /\ src_fd' = "caller"
         /\ UNCHANGED result

\* progressbox(file_path, file_flags, fd, ...)
Progressbox ==
    /\ pc = "idle"
    /\ mode' = "progressbox"
    /\ \E file_path \in BOOLEAN, fdarg \in BOOLEAN, b \in Backends :
         /\ pbargs' = PbArgs("progressbox", file_path, fdarg, b.compat, b.too_old)
         /\ _progressboxoid(file_path, fdarg)
    /\ UNCHANGED <<fd, nclose, child_output, nwait, pipe>>
    /\ UNCHANGED <<gauge_in, stdin_buf, other, other_cfd, call>>
    /\ UNCHANGED childVars
    /\ UNCHANGED instVars

\* programbox(file_path, file_flags, fd, ...): the version check comes first
Programbox ==
    /\ pc = "idle"
    /\ mode' = "progressbox"
    /\ \E file_path \in BOOLEAN, fdarg \in BOOLEAN, b \in Backends :
         /\ pbargs' = PbArgs("programbox", file_path, fdarg, b.compat, b.too_old)
         /\ IF _dialog_version_check(b.compat, b.too_old)
            THEN /\ pc' = "done"
                 /\ result' = Raise("InadequateBackendVersion", <<>>, -1, "")
                 /\ UNCHANGED src_fd
            ELSE _progressboxoid(file_path, fdarg)
    /\ UNCHANGED <<fd, nclose, child_output, nwait, pipe>>
    /\ UNCHANGED <<gauge_in, stdin_buf, other, other_cfd, call>>
    /\ UNCHANGED childVars
    /\ UNCHANGED instVars

\* fd = os.open(file_path, file_flags), inside _OSErrorHandling
PbOpen ==
    /\ pc = "pb_open"
    /\ \/ /\ src_fd' = "open"
          /\ pc' = "cp_pipe"
          /\ UNCHANGED result
       \/ /\ Fail(_OSErrorHandling("OSError"), "open")
          /\ UNCHANGED src_fd
    /\ UNCHANGED <<mode, fd, nclose, child_output, nwait, pipe>>
    /\ UNCHANGED <<gauge_in, stdin_buf, other, other_cfd, pbargs, call>>
    /\ UNCHANGED childVars
    /\ UNCHANGED instVars

\* the 'finally' clause: os.close(fd) for the descriptor opened from
\* file_path, inside _OSErrorHandling; an exception raised here replaces
\* the outcome of the 'try' block
PbFinally ==
    /\ pc = "pb_finally"
    /\ pc' = "done"
    /\ \/ /\ src_fd' = "closed"
          /\ UNCHANGED result
       \/ /\ src_fd' \in {"open", "closed"}
          /\ result' = Raise(_OSErrorHandling("OSError"), <<>>, -1, "close")
    /\ UNCHANGED <<mode, fd, nclose, child_output, nwait, pipe>>
    /\ UNCHANGED <<gauge_in, stdin_buf, other, other_cfd, pbargs, call>>
    /\ UNCHANGED childVars
    /\ UNCHANGED instVars

ProgressNext ==
    \/ Progressbox
    \/ Programbox
    \/ PbOpen
    \/ PbFinally
    \/ CallPipe
    \/ CallFork
    \/ CallClose
    \/ ReadOutput
    \/ ReadEOF
    \/ ReadFails
    \/ WaitpidReturns
    \/ WaitpidFails
    \/ ChildClose
    \/ ChildDup
    \/ ChildDup2
    \/ ChildDup2Stdin
    \/ ChildExec
    \/ BackendWrite
    \/ BackendExit
    \/ EscapedChildExit
    \/ ChildKilled

ProgressSpec == Init /\ [][ProgressNext]_vars

\* the call was made with both file_path and fd, or with neither
BothOrNeither == pbargs.widget # "none" /\ pbargs.file_path = pbargs.fd

\* programbox was called on a dialog backend older than the widget needs
VersionRejected ==
    /\ pbargs.widget = "programbox"
    /\ _dialog_version_check(pbargs.compat, pbargs.too_old)

\* the call has ended and has opened no file, created no pipe and spawned
\* no process
NothingStarted ==
    /\ pc = "done"
    /\ src_fd = "none"
    /\ \A f \in FdNames : fd[f] = "none"
    /\ cpc = "none"

\* C14 as stated: progressbox or programbox called with both file_path and
\* fd, or with neither, raises BadPythonDialogUsage before any file is
\* opened, any pipe is created or any process is spawned
C14_BadUsageRaisedFirst ==
    BothOrNeither =>
        /\ result = Raise("BadPythonDialogUsage", <<>>, -1, "")
        /\ NothingStarted

\* C14 amended: progressbox, and programbox on a backend that passes its
\* version check, called with both file_path and fd or with neither, raise
\* BadPythonDialogUsage before any file is opened, any pipe is created or
\* any process is spawned; programbox on a dialog backend older than 1.1
\* raises InadequateBackendVersion instead, also before any of these
C14_BadUsageAfterVersionCheck ==
    BothOrNeither =>
        /\ NothingStarted
        /\ result = IF VersionRejected
                    THEN Raise("InadequateBackendVersion", <<>>, -1, "")
                    ELSE Raise("BadPythonDialogUsage", <<>>, -1, "")

C14_Witness ==
    /\ pbargs.widget = "programbox"
    /\ pbargs.file_path
    /\ pbargs.fd
    /\ ~VersionRejected
    /\ result.value = "BadPythonDialogUsage"
    /\ NothingStarted

(***************************************************************************)
(* The parsers of the help output.  Indices are Python's: s[i] is At(s, i) *)
(* and the first character has index 0.                                    *)
(***************************************************************************)
At(s, i) == s[i + 1]

\* s[a:b] and s[a:] for 0 <= a
Slice(s, a, b) == SubSeq(s, a + 1, IF b < Len(s) THEN b ELSE Len(s))
SliceFrom(s, a) == SubSeq(s, a + 1, Len(s))

\* s.startswith(prefix)
startswith(s, prefix) ==
    /\ Len(s) >= Len(prefix)
    /\ SubSeq(s, 1, Len(prefix)) = prefix

\* s.index(c, i), with len(s) where index() raises ValueError
RECURSIVE IndexOrLen(_, _, _)
IndexOrLen(s, c, i) ==
    IF i >= Len(s) THEN Len(s)
    ELSE IF At(s, i) = c THEN i
    ELSE IndexOrLen(s, c, i + 1)

\* a faulty split that cuts the status at its first space too
SplitEverySpace(s) ==
    LET k == IndexOrLen(s, " ", 0)
        rest == SliceFrom(s, k + 1)
    IN IF k = Len(s)
       THEN <<s>>
       ELSE <<Slice(s, 0, k), Slice(rest, 0, IndexOrLen(rest, " ", 0))>>

\* s.split(' ', 1): at most one split, at the first space
split1(s) ==
    LET k == IndexOrLen(s, " ", 0)
    IN IF k = Len(s) THEN <<s>> ELSE <<Slice(s, 0, k), SliceFrom(s, k + 1)>>

\* outcome of _parse_quoted_string and _split_shellstyle_arglist
Parsed(str, next, args) ==
    [ok |-> TRUE, exc |-> "", str |-> str, next |-> next, args |-> args]
ParseRaise(exc) ==
    [ok |-> FALSE, exc |-> exc, str |-> <<>>, next |-> 0 - 1, args |-> <<>>]

\* the loop of _parse_quoted_string and the test that follows it; s[i] with
\* i = len(s) raises IndexError
RECURSIVE ParseQuotedLoop(_, _, _)
ParseQuotedLoop(s, i, l) ==
    IF i < Len(s) /\ At(s, i) # "\""
    THEN IF At(s, i) = "\\"
         THEN IF i + 1 >= Len(s)
              THEN ParseRaise("PythonDialogBug")
              ELSE ParseQuotedLoop(s, i + 2, Append(l, At(s, i + 1)))
         ELSE ParseQuotedLoop(s, i + 1, Append(l, At(s, i)))
    ELSE IF i >= Len(s)
         THEN ParseRaise("IndexError")
         ELSE IF At(s, i) # "\""
              THEN ParseRaise("PythonDialogBug")
              ELSE Parsed(l, i + 1, <<>>)

\* a faulty parser that returns the index of the closing quote
ParseQuotedStringStopsAtQuote(s, start) ==
    IF start >= Len(s) \/ At(s, start) # "\""
    THEN ParseRaise("PythonDialogBug")
    ELSE LET r == ParseQuotedLoop(s, start + 1, <<>>)
         IN IF r.ok THEN Parsed(r.str, r.next - 1, <<>>) ELSE r

_parse_quoted_string(s, start) ==
    IF start >= Len(s) \/ At(s, start) # "\""
    THEN ParseRaise("PythonDialogBug")
    ELSE ParseQuotedLoop(s, start + 1, <<>>)

RECURSIVE SplitLoop(_, _, _)
SplitLoop(s, i, l) ==
    IF i >= Len(s)
    THEN Parsed(<<>>, i, l)
    ELSE IF At(s, i) = "\""
    THEN LET q == _parse_quoted_string(s, i)
         IN IF ~q.ok
            THEN q
            ELSE IF q.next < Len(s) /\ At(s, q.next) # " "
            THEN ParseRaise("PythonDialogBug")
            ELSE SplitLoop(s, q.next + 1, Append(l, q.str))
    ELSE LET end == IndexOrLen(s, " ", i)
         IN SplitLoop(s, end + 1, Append(l, Slice(s, i, end)))

\* a faulty splitter that starts after the first character
SplitFromSecondChar(s) == SplitLoop(RStrip(s), 1, <<>>)

_split_shellstyle_arglist(s) == SplitLoop(RStrip(s), 0, <<>>)

\* "--help-status" in self.dialog_persistent_arglist
\*     or kwargs.get("help_status", False)
\* a faulty test that takes the extended status as always requested
HelpStatusAlwaysOn(persistent, help_status) == TRUE

_help_status_on(persistent, help_status) == persistent \/ help_status

HELP_ == <<"H", "E", "L", "P", " ">>

\* the extended-status branch for a single value
ParseHelpSingle(s) ==
    IF s = <<>>
    THEN RetRaise("PythonDialogBug")
    ELSE IF s[1] # "\""
    THEN LET l2 == split1(s)
         IN IF Len(l2) = 1
            THEN RetRaise("PythonDialogBug")
            ELSE RetPair(l2[1], l2[2])
    ELSE LET q == _parse_quoted_string(s, 0)
         IN IF ~q.ok
            THEN RetRaise(q.exc)
            ELSE IF ~startswith(SliceFrom(s, q.next), <<" ">>)
            THEN RetRaise("PythonDialogBug")
            ELSE RetPair(q.str, SliceFrom(s, q.next + 1))

\* a faulty branch that never splits the first line into tokens
ParseHelpMultivalUnsplit(s, l, multival_on_single_line) ==
    RetList(s, Tail(l))

\* a faulty branch that counts the first line among the following lines
ParseHelpMultivalAllLines(s, l, multival_on_single_line) ==
    IF multival_on_single_line
    THEN LET r == _split_shellstyle_arglist(s)
         IN IF ~r.ok
            THEN RetRaise(r.exc)
            ELSE IF r.args = <<>>
            THEN RetRaise("PythonDialogBug")
            ELSE RetList(r.args[1], Tail(r.args))
    ELSE RetList(s, l)

\* the extended-status branch for a list of values
ParseHelpMultival(s, l, multival_on_single_line) ==
    IF multival_on_single_line
    THEN LET r == _split_shellstyle_arglist(s)
         IN IF ~r.ok
            THEN RetRaise(r.exc)
            ELSE IF r.args = <<>>
            THEN RetRaise("PythonDialogBug")
            ELSE RetList(r.args[1], Tail(r.args))
    ELSE RetList(s, Tail(l))

\* a faulty raw branch that accepts an output of several lines
ParseHelpRawFirstLine(l) ==
    IF Len(l) = 0 THEN RetStr(<<>>) ELSE RetStr(l[1])

\* the raw_format branch
ParseHelpRaw(l) ==
    IF Len(l) > 1
    THEN RetRaise("PythonDialogBug")
    ELSE IF Len(l) = 0 THEN RetStr(<<>>) ELSE RetStr(l[1])

_parse_help(output, status_on, raw_format, multival_on_single_line, multival) ==
    LET l == splitlines(output)
    IN IF raw_format
       THEN ParseHelpRaw(l)
       ELSE IF l = <<>>
       THEN RetNone
       ELSE IF ~startswith(l[1], HELP_)
       THEN RetRaise("PythonDialogBug")
       ELSE LET s == SliceFrom(l[1], 5)
            IN IF ~status_on
               THEN RetStr(s)
               ELSE IF multival
               THEN ParseHelpMultival(s, l, multival_on_single_line)
               ELSE ParseHelpSingle(s)

(***************************************************************************)
(* Calls of the parsers on the texts a backend can print.                  *)
(***************************************************************************)
MaxParseLen == 3
MaxTokens == 2

ParseChars == {"a", " ", "\"", "\\", "\n"}

\* a token as the backend prints it: bare, or quoted with " and \ escaped
RECURSIVE Escape(_)
Escape(t) ==
    IF t = <<>>
    THEN <<>>
    ELSE (IF Head(t) \in {"\"", "\\"} THEN <<"\\", Head(t)>> ELSE <<Head(t)>>)
            \o Escape(Tail(t))

Quote(t) == <<"\"">> \o Escape(t) \o <<"\"">>

\* a text that can be printed bare: not empty, no space, not led by a quote
BareOK(t) == t # <<>> /\ " " \notin Chars(t) /\ t[1] # "\""

TokenTexts ==
    {<<>>, <<"a">>, <<" ">>, <<"\"">>, <<"\\">>, <<"a", " ", "\"">>}

PrintedTokens ==
    {p \in [text : TokenTexts, quoted : BOOLEAN] : p.quoted \/ BareOK(p.text)}

PrintedToken(p) == IF p.quoted THEN Quote(p.text) ELSE p.text

\* the printed tokens joined by single spaces
RECURSIVE PrintedList(_)
PrintedList(ps) ==
    IF Len(ps) = 1
    THEN PrintedToken(ps[1])
    ELSE PrintedToken(ps[1]) \o <<" ">> \o PrintedList(Tail(ps))

PrintedLists == UNION {[1 .. k -> PrintedTokens] : k \in 1 .. MaxTokens}

\* outputs with longer ids: HELP "tag one" active and HELP tag1 tag2
TagOneActive ==
    <<"H", "E", "L", "P", " ", "\"", "t", "a", "g", " ", "o", "n", "e",
      "\"", " ", "a", "c", "t", "i", "v", "e">>

Tag1Tag2 ==
    <<"H", "E", "L", "P", " ", "t", "a", "g", "1", " ", "t", "a", "g", "2">>

HelpExamples == {TagOneActive, Tag1Tag2}

HelpOutputs ==
    Strs(ParseChars, MaxParseLen)
       \cup {HELP_ \o b : b \in Strs(ParseChars, MaxParseLen)}
       \cup {HELP_ \o PrintedList(ps) : ps \in PrintedLists}
       \cup {HELP_ \o PrintedList(ps) \o <<" ">> \o b :
                ps \in [1 .. 1 -> PrintedTokens], b \in Strs({"a", " "}, 2)}
       \cup HelpExamples

\* _parse_help(output, kwargs, raw_format=..., multival_on_single_line=...,
\*             multival=...) on a Dialog whose persistent arguments hold
\* "--help-status" or not
ParseHelp ==
    /\ call.fn = "none"
    /\ \E output \in HelpOutputs, persistent \in BOOLEAN,
          help_status \in BOOLEAN, raw_format \in BOOLEAN,
          multival_on_single_line \in BOOLEAN, multival \in BOOLEAN :
         call' = [fn |-> "_parse_help", n |-> 1, output |-> output,
                  persistent |-> persistent, help_status |-> help_status,
                  raw_format |-> raw_format,
                  multival_on_single_line |-> multival_on_single_line,
                  multival |-> multival,
                  ret |-> _parse_help(output,
                             _help_status_on(persistent, help_status),
                             raw_format, multival_on_single_line, multival)]
    /\ UNCHANGED <<gauge_in, stdin_buf, other, other_cfd, pbargs, src_fd>>
    /\ UNCHANGED parentVars
    /\ UNCHANGED childVars
    /\ UNCHANGED pipe
    /\ UNCHANGED instVars

QuotedChars == {"a", " ", "\"", "\\"}

\* a quoted token with every character of it escaped
RECURSIVE EscapeAll(_)
EscapeAll(t) ==
    IF t = <<>> THEN <<>> ELSE <<"\\", Head(t)>> \o EscapeAll(Tail(t))

QuoteAll(t) == <<"\"">> \o EscapeAll(t) \o <<"\"">>

\* the quoted forms of a text
QuotedForms(t) == {Quote(t), QuoteAll(t)}

\* lines holding a quoted token, alone or between other characters
QuotedInputs ==
    Strs(QuotedChars, MaxParseLen)
       \cup {pre \o q \o post :
                pre \in {<<>>, <<"a">>}, post \in {<<>>, <<" ", "a">>},
                q \in UNION {QuotedForms(t) : t \in TokenTexts}}

\* _parse_quoted_string(s, start) on a line of the backend
ParseQuotedString ==
    /\ call.fn = "none"
    /\ \E s \in QuotedInputs :
         \E start \in 0 .. Len(s) :
            call' = [fn |-> "_parse_quoted_string", n |-> 1, s |-> s,
                     start |-> start, ret |-> _parse_quoted_string(s, start)]
    /\ UNCHANGED <<gauge_in, stdin_buf, other, other_cfd, pbargs, src_fd>>
    /\ UNCHANGED parentVars
    /\ UNCHANGED childVars
    /\ UNCHANGED pipe
    /\ UNCHANGED instVars

\* texts of tokens, among them texts ending in a tab or a line break
SplitTexts == TokenTexts \cup {<<"a", "\t">>, <<"\n">>, <<"\\", "a">>}

\* a token printed bare or quoted; bare when it is not empty and holds no
\* space and no double quote
SplitTokens ==
    {p \in [text : SplitTexts, quoted : BOOLEAN] :
        p.quoted \/ (p.text # <<>> /\ {" ", "\""} \cap Chars(p.text) = {})}

SplitLists == UNION {[1 .. k -> SplitTokens] : k \in 0 .. MaxTokens}

\* the printed tokens joined by single spaces; nothing for no token
JoinPrinted(ps) == IF ps = <<>> THEN <<>> ELSE PrintedList(ps)

\* "a b" c "d\"e"
ABCDE ==
    <<"\"", "a", " ", "b", "\"", " ", "c", " ", "\"", "d", "\\", "\"", "e",
      "\"">>

SplitInputs ==
    Strs(QuotedChars, MaxParseLen)
       \cup {JoinPrinted(ps) : ps \in SplitLists}
       \cup {ABCDE}

\* _split_shellstyle_arglist(s) on a line of the backend
SplitShellstyleArglist ==
    /\ call.fn = "none"
    /\ \E s \in SplitInputs :
         call' = [fn |-> "_split_shellstyle_arglist", n |-> 1, s |-> s,
                  ret |-> _split_shellstyle_arglist(s)]
    /\ UNCHANGED <<gauge_in, stdin_buf, other, other_cfd, pbargs, src_fd>>
    /\ UNCHANGED parentVars
    /\ UNCHANGED childVars
    /\ UNCHANGED pipe
    /\ UNCHANGED instVars

ParseNext ==
    \/ ParseHelp
    \/ ParseQuotedString
    \/ SplitShellstyleArglist

ParseSpec == Init /\ [][ParseNext]_vars

ParseHelpCalled == call.fn = "_parse_help"

\* the output holds a line terminator before its last character
SeveralLines(output) ==
    \E i \in 1 .. Len(output) - 1 : output[i] = "\n"

WithoutFinalNewline(output) ==
    IF output # <<>> /\ output[Len(output)] = "\n"
    THEN SubSeq(output, 1, Len(output) - 1)
    ELSE output

\* C15: in raw format an empty output gives the empty string, an output of
\* exactly one line, with or without its final newline, gives that line
\* verbatim, an output of more than one line raises PythonDialogBug; the
\* result does not depend on the extended status being requested
C15_RawFormat ==
    (ParseHelpCalled /\ call.raw_format) =>
        call.ret = IF call.output = <<>>
                   THEN RetStr(<<>>)
                   ELSE IF SeveralLines(call.output)
                   THEN RetRaise("PythonDialogBug")
                   ELSE RetStr(WithoutFinalNewline(call.output))

C15_Witness ==
    /\ ParseHelpCalled
    /\ call.raw_format
    /\ call.persistent
    /\ call.output = <<"a", " ", "\n">>
    /\ call.ret = RetStr(<<"a", " ">>)

\* the first line of a non-empty output
FirstLine(output) == Slice(output, 0, IndexOrLen(output, "\n", 0))

\* the prefixed form was parsed and the first line begins with "HELP "
Prefixed ==
    /\ ParseHelpCalled
    /\ ~call.raw_format
    /\ call.output # <<>>
    /\ startswith(FirstLine(call.output), HELP_)

\* what follows "HELP " on the first line
Payload == SliceFrom(FirstLine(call.output), Len(HELP_))

\* the extended status was requested, by the persistent arguments or by
\* the help_status option of the call
StatusRequested == call.persistent \/ call.help_status

\* C16: in the prefixed form a first line that does not begin with "HELP "
\* raises PythonDialogBug; when it does and the extended status is not
\* requested, the result is the remainder of the first line, for
\* single-value and multi-value widgets alike
C16_PrefixedForm ==
    /\ (/\ ParseHelpCalled
        /\ ~call.raw_format
        /\ call.output # <<>>
        /\ ~startswith(FirstLine(call.output), HELP_))
       => call.ret = RetRaise("PythonDialogBug")
    /\ (Prefixed /\ ~StatusRequested) => call.ret = RetStr(Payload)

C16_Witness ==
    /\ Prefixed
    /\ ~StatusRequested
    /\ call.multival
    /\ call.multival_on_single_line
    /\ Payload = <<"\"", "a">>
    /\ call.ret = RetStr(<<"\"", "a">>)

\* the extended status of a single-value widget is parsed
SingleValueStatus == Prefixed /\ StatusRequested /\ ~call.multival

\* C17: with the extended status, for a single-value widget, a payload made
\* of an id (bare without spaces, or double-quoted with backslash
\* escapes), one space and a status gives the pair of the unquoted id and
\* the status verbatim, "tag one" active giving ("tag one", "active"); an
\* empty payload and a payload with no delimiter after the id (a bare id
\* without a space, a quoted id not followed at once by a space) raise
\* PythonDialogBug
C17_SingleValueStatus ==
    SingleValueStatus =>
        /\ \A k \in 1 .. Len(Payload) :
              (Payload[k] = " " /\ BareOK(SubSeq(Payload, 1, k - 1))) =>
                  call.ret = RetPair(SubSeq(Payload, 1, k - 1),
                                     SliceFrom(Payload, k))
        /\ \A t \in TokenTexts :
              /\ startswith(Payload, Quote(t) \o <<" ">>) =>
                    call.ret = RetPair(t, SliceFrom(Payload,
                                                    Len(Quote(t)) + 1))
              /\ (/\ startswith(Payload, Quote(t))
                  /\ ~startswith(Payload, Quote(t) \o <<" ">>)) =>
                    call.ret = RetRaise("PythonDialogBug")
        /\ Payload = <<>> => call.ret = RetRaise("PythonDialogBug")
        /\ (BareOK(Payload) /\ " " \notin Chars(Payload)) =>
              call.ret = RetRaise("PythonDialogBug")
        /\ call.output = TagOneActive =>
              call.ret = RetPair(<<"t", "a", "g", " ", "o", "n", "e">>,
                                 <<"a", "c", "t", "i", "v", "e">>)

C17_Witness ==
    /\ SingleValueStatus
    /\ call.output = HELP_ \o Quote(<<"a", " ", "\"">>) \o <<" ", "a", " ">>
    /\ call.ret = RetPair(<<"a", " ", "\"">>, <<"a", " ">>)

\* the extended status of a multi-value widget is parsed
MultiValueStatus == Prefixed /\ StatusRequested /\ call.multival

\* the texts of a list of printed tokens
TokenList(ps) == [i \in 1 .. Len(ps) |-> ps[i].text]

\* C18: with the extended status, for a multi-value widget that prints its
\* values on one line, the payload is split into shell-like tokens and the
\* result is the first token with the list of the others, HELP tag1 tag2
\* giving ("tag1", ["tag2"]); a payload without a token raises
\* PythonDialogBug
C18_MultiValueSingleLine ==
    (MultiValueStatus /\ call.multival_on_single_line) =>
        /\ \A ps \in PrintedLists :
              Payload = PrintedList(ps) =>
                  call.ret = RetList(ps[1].text, Tail(TokenList(ps)))
        /\ Chars(Payload) \subseteq Whitespace =>
              call.ret = RetRaise("PythonDialogBug")
        /\ call.output = Tag1Tag2 =>
              call.ret = RetList(<<"t", "a", "g", "1">>,
                                 << <<"t", "a", "g", "2">> >>)

C18_Witness ==
    /\ MultiValueStatus
    /\ call.multival_on_single_line
    /\ Payload = <<"a", " ">> \o Quote(<<"a", " ", "\"">>)
    /\ call.ret = RetList(<<"a">>, << <<"a", " ", "\"">> >>)

\* every line followed by a line terminator
RECURSIVE JoinLines(_)
JoinLines(lines) ==
    IF lines = <<>>
    THEN <<>>
    ELSE Head(lines) \o <<"\n">> \o JoinLines(Tail(lines))

\* the output is made of these lines, in order, the last one with or
\* without its terminator
MadeOfLines(output, lines) ==
    /\ \A i \in 1 .. Len(lines) : "\n" \notin Chars(lines[i])
    /\ \/ output = JoinLines(lines)
       \/ /\ lines[Len(lines)] # <<>>
          /\ output \o <<"\n">> = JoinLines(lines)

\* C19: with the extended status, for a multi-value widget that prints its
\* values on several lines, the result is the payload of the first line
\* with the list of every following line of the output, in order, one
\* element per line, without the line terminators
C19_MultiValueMultiLine ==
    (MultiValueStatus /\ ~call.multival_on_single_line) =>
        /\ call.ret.kind = "value"
        /\ call.ret.shape = "list"
        /\ call.ret.a = Payload
        /\ MadeOfLines(call.output, <<HELP_ \o call.ret.a>> \o call.ret.l)

C19_Witness ==
    /\ MultiValueStatus
    /\ ~call.multival_on_single_line
    /\ call.output = HELP_ \o <<"\n", "\n", "a">>
    /\ call.ret = RetList(<<>>, << <<>>, <<"a">> >>)

\* s holds an unescaped double quote at index i or later
RECURSIVE HasClosingQuote(_, _)
HasClosingQuote(s, i) ==
    IF i >= Len(s) THEN FALSE
    ELSE IF At(s, i) = "\"" THEN TRUE
    ELSE IF At(s, i) = "\\" THEN HasClosingQuote(s, i + 2)
    ELSE HasClosingQuote(s, i + 1)

\* the quoted token opens at the start index and is never closed
Unterminated(s, start) ==
    /\ start < Len(s)
    /\ At(s, start) = "\""
    /\ ~HasClosingQuote(s, start + 1)

\* C20: _parse_quoted_string raises PythonDialogBug for every input whose
\* quoted token opens at the start index and reaches the end of the string
\* without an unescaped closing quote, and fails in no other way
C20_UnterminatedIsBug ==
    call.fn = "_parse_quoted_string" =>
        /\ Unterminated(call.s, call.start) =>
              call.ret = ParseRaise("PythonDialogBug")
        /\ ~call.ret.ok => call.ret.exc = "PythonDialogBug"

\* from index i on, the characters up to the end of s are escaped pairs
\* and plain characters, and the last one is a backslash that escapes
\* nothing
RECURSIVE EndsInLoneBackslash(_, _)
EndsInLoneBackslash(s, i) ==
    IF i >= Len(s) THEN FALSE
    ELSE IF At(s, i) = "\"" THEN FALSE
    ELSE IF At(s, i) = "\\"
    THEN IF i + 1 >= Len(s) THEN TRUE ELSE EndsInLoneBackslash(s, i + 2)
    ELSE EndsInLoneBackslash(s, i + 1)

\* C21: _parse_quoted_string raises PythonDialogBug for every input in
\* which, inside the quoted token, a backslash is the last character before
\* the end of the string; for a well-formed token it returns the content
\* with every escaped character replaced by the character itself, and the
\* index just past the closing quote
C21_QuotedToken ==
    call.fn = "_parse_quoted_string" =>
        /\ (/\ call.start < Len(call.s)
            /\ At(call.s, call.start) = "\""
            /\ EndsInLoneBackslash(call.s, call.start + 1))
           => call.ret = ParseRaise("PythonDialogBug")
        /\ \A t \in TokenTexts \cup Strs(QuotedChars, 1) :
              \A q \in QuotedForms(t) :
                 startswith(SliceFrom(call.s, call.start), q) =>
                     call.ret = Parsed(t, call.start + Len(q), <<>>)

C21_Witness ==
    /\ call.fn = "_parse_quoted_string"
    /\ call.s = <<"a">> \o Quote(<<"a", " ", "\"">>) \o <<" ", "a">>
    /\ call.start = 1
    /\ call.ret = Parsed(<<"a", " ", "\"">>, 7, <<>>)

\* an input whose quoted token ends in a backslash that escapes nothing
LoneBackslashReached ==
    /\ call.fn = "_parse_quoted_string"
    /\ call.s = <<"\"", "a", "\\">>
    /\ call.start = 0
    /\ call.ret = ParseRaise("PythonDialogBug")

SplitCalled == call.fn = "_split_shellstyle_arglist"

\* the split of the example gives the tokens a b, c and d"e
ExampleSplit ==
    call.s = ABCDE =>
        call.ret = Parsed(<<>>, Len(ABCDE) + 1,
                          << <<"a", " ", "b">>, <<"c">>, <<"d", "\"", "e">> >>)

\* C22 as stated: for every list of tokens, each written bare (when not
\* empty and free of spaces and double quotes) or double-quoted with
\* double quotes and backslashes escaped, and joined by single spaces,
\* _split_shellstyle_arglist returns the original list
C22_SplitRoundTrip ==
    SplitCalled =>
        /\ \A ps \in SplitLists :
              call.s = JoinPrinted(ps) =>
                  (call.ret.ok /\ call.ret.args = TokenList(ps))
        /\ ExampleSplit

\* no token written bare holds a whitespace character
BareWithoutWhitespace(ps) ==
    \A i \in 1 .. Len(ps) :
       ps[i].quoted \/ Chars(ps[i].text) \cap Whitespace = {}

\* C22 amended: for every list of tokens, each written bare (when not
\* empty and free of whitespace and double quotes) or double-quoted with
\* double quotes and backslashes escaped, and joined by single spaces,
\* _split_shellstyle_arglist returns the original list; the example
\* "a b" c "d\"e" gives a b, c and d"e
C22_SplitRoundTripNoWhitespace ==
    SplitCalled =>
        /\ \A ps \in SplitLists :
              (call.s = JoinPrinted(ps) /\ BareWithoutWhitespace(ps)) =>
                  (call.ret.ok /\ call.ret.args = TokenList(ps))
        /\ ExampleSplit

C22_Witness ==
    /\ SplitCalled
    /\ call.s = <<"\\", "a", " ">> \o Quote(<<"a", "\t">>)
    /\ call.ret.ok
    /\ call.ret.args = << <<"\\", "a">>, <<"a", "\t">> >>

(***************************************************************************)
(* Dash escaping of argument vectors.  An argument is a text, a vector a   *)
(* sequence of arguments.                                                  *)
(***************************************************************************)
MaxArgs == 3

TwoDashes == <<"-", "-">>

ArgTexts ==
    {<<>>, <<"-">>, TwoDashes, <<"-", "-", "a">>, <<"a">>, <<"a", "-", "-">>}

ArgVectors == UNION {[1 .. k -> ArgTexts] : k \in 0 .. MaxArgs}

\* outcome of a function that returns a list
ListOk(l) == [ok |-> TRUE, exc |-> "", list |-> l]
ListRaise(exc) == [ok |-> FALSE, exc |-> exc, list |-> <<>>]

\* _dash_escape(args): "--" is put before every element that starts with
\* "--"
RECURSIVE _dash_escape(_)
_dash_escape(args) ==
    IF args = <<>>
    THEN <<>>
    ELSE (IF startswith(Head(args), TwoDashes)
          THEN <<TwoDashes, Head(args)>>
          ELSE <<Head(args)>>) \o _dash_escape(Tail(args))

\* a faulty function that escapes the first element too
DashEscapeWithFirst(args) ==
    IF args = <<>>
    THEN ListRaise("PythonDialogBug")
    ELSE ListOk(_dash_escape(args))

\* _dash_escape_nf(args): args[1:] is escaped into a new list and args[0]
\* is inserted in front of it
_dash_escape_nf(args) ==
    IF args = <<>>
    THEN ListRaise("PythonDialogBug")
    ELSE ListOk(<<args[1]>> \o _dash_escape(Tail(args)))

\* _dash_escape_nf(args), or Dialog.dash_escape_nf(args) that passes args
\* on to it; args is read only
DashEscapeNf ==
    /\ call.fn = "none"
    /\ \E args \in ArgVectors, entry \in {"function", "classmethod"} :
         call' = [fn |-> "_dash_escape_nf", n |-> 1, entry |-> entry,
                  args |-> args, args_after |-> args,
                  ret |-> _dash_escape_nf(args)]
    /\ UNCHANGED <<gauge_in, stdin_buf, other, other_cfd, pbargs, src_fd>>
    /\ UNCHANGED parentVars
    /\ UNCHANGED childVars
    /\ UNCHANGED pipe
    /\ UNCHANGED instVars

(***************************************************************************)
(* Forms.  Of an element of a form the model keeps ITEM and FIELD_LENGTH;  *)
(* the field is editable when FIELD_LENGTH is positive.                    *)
(***************************************************************************)
MaxFields == 3

Items == {"x", "y"}
StatusValues == {"u", "v"}
FieldLengths == {0 - 1, 0, 2}

FormElements == [item : Items, field_length : FieldLengths]
ElementLists == UNION {[1 .. k -> FormElements] : k \in 0 .. MaxFields}

\* the editable fields among the first k elements
EditableUpTo(elements, k) == {j \in 1 .. k : elements[j].field_length > 0}

\* the lists the backend reports for the elements: one value for each
\* editable field
StatusLists(elements) ==
    [1 .. Cardinality(EditableUpTo(elements, Len(elements))) -> StatusValues]

\* the loop of _form_updated_items from the element of (0-based) index
\* i on: status[i] where the field is editable, the element's item
\* otherwise; status[i] raises IndexError when status has no index i
RECURSIVE FormUpdatedLoop(_, _, _, _)
FormUpdatedLoop(status, elements, i, res) ==
    IF i = Len(elements)
    THEN ListOk(res)
    ELSE IF elements[i + 1].field_length > 0
         THEN IF i < Len(status)
              THEN FormUpdatedLoop(status, elements, i + 1,
                                   Append(res, At(status, i)))
              ELSE ListRaise("IndexError")
         ELSE FormUpdatedLoop(status, elements, i + 1,
                              Append(res, elements[i + 1].item))

_form_updated_items(status, elements) ==
    FormUpdatedLoop(status, elements, 0, <<>>)

\* _generic_form calls _form_updated_items(status, elements) with the
\* status list parsed from the help output
FormUpdatedItems ==
    /\ call.fn = "none"
    /\ \E elements \in ElementLists :
         \E status \in StatusLists(elements) :
           call' = [fn |-> "_form_updated_items", n |-> 1,
                    status |-> status, elements |-> elements,
                    ret |-> _form_updated_items(status, elements)]
    /\ UNCHANGED <<gauge_in, stdin_buf, other, other_cfd, pbargs, src_fd>>
    /\ UNCHANGED parentVars
    /\ UNCHANGED childVars
    /\ UNCHANGED pipe
    /\ UNCHANGED instVars

PureNext ==
    \/ DashEscapeNf
    \/ FormUpdatedItems

PureSpec == Init /\ [][PureNext]_vars

\* the argument starts with "--"
Dashed(a) == Len(a) >= 2 /\ a[1] = "-" /\ a[2] = "-"

\* the number of arguments among the 2nd to the k-th that start with "--"
DashedUpTo(args, k) == Cardinality({j \in 2 .. k : Dashed(args[j])})

\* C23: for a non-empty argument vector, non-first dash escaping gives a
\* new list whose first element is the first argument unaltered and in
\* which every later argument comes in its original order, preceded by an
\* inserted "--" exactly when it starts with "--"; the input is not
\* modified, and an empty vector raises PythonDialogBug
C23_DashEscapeNf ==
    call.fn = "_dash_escape_nf" =>
        /\ call.args_after = call.args
        /\ call.args = <<>> => call.ret = ListRaise("PythonDialogBug")
        /\ call.args # <<>> =>
              LET l == call.ret.list
                  n == Len(call.args)
              IN /\ call.ret.ok
                 /\ Len(l) = n + DashedUpTo(call.args, n)
                 /\ l[1] = call.args[1]
                 /\ \A k \in 2 .. n :
                       LET pos == k + DashedUpTo(call.args, k)
                       IN /\ l[pos] = call.args[k]
                          /\ Dashed(call.args[k]) => l[pos - 1] = TwoDashes

C23_Witness ==
    /\ call.fn = "_dash_escape_nf"
    /\ call.args = <<TwoDashes, <<"a">>, <<"-", "-", "a">> >>
    /\ call.ret = ListOk(<<TwoDashes, <<"a">>, TwoDashes, <<"-", "-", "a">> >>)

\* C28: _form_updated_items(status, elements), status holding the values
\* of exactly the editable fields in order, returns a list as long as
\* elements in which the entry of an editable field is that field's own
\* value from status and the entry of a read-only field is its original
\* item, wherever the read-only fields are
C28_FormUpdatedItems ==
    call.fn = "_form_updated_items" =>
        /\ call.ret.ok
        /\ Len(call.ret.list) = Len(call.elements)
        /\ \A k \in 1 .. Len(call.elements) :
              call.ret.list[k] =
                  IF call.elements[k].field_length > 0
                  THEN call.status[Cardinality(EditableUpTo(call.elements, k))]
                  ELSE call.elements[k].item

\* the same where no read-only field comes before an editable one
ReadOnlyLast(elements) ==
    \A j, k \in 1 .. Len(elements) :
        (j < k /\ elements[k].field_length > 0) => elements[j].field_length > 0

C28_ReadOnlyLastReached ==
    /\ call.fn = "_form_updated_items"
    /\ Len(call.elements) = 3
    /\ call.elements[1].field_length > 0
    /\ call.elements[3].field_length <= 0
    /\ call.ret.ok

(***************************************************************************)
(* Configuration of a Dialog instance and the argument vector of an        *)
(* invocation.                                                             *)
(***************************************************************************)
MaxPersistent == 2

DialogPrg == <<"d", "i", "a", "l", "o", "g">>
TITLE == <<"-", "-", "t", "i", "t", "l", "e">>
BACKTITLE == <<"-", "-", "b", "a", "c", "k", "t", "i", "t", "l", "e">>
ASCII_LINES == <<"-", "-", "a", "s", "c", "i", "i", "-", "l", "i", "n", "e", "s">>

OptionTexts == {<<"a">>, <<"-", "-", "a">>}

\* the vectors a program adds to the persistent arguments
PersistentVectors == UNION {[1 .. k -> OptionTexts] : k \in 1 .. 2}

\* the widget arguments of the calls
CmdArgs ==
    {<<>>, <<<<"a">>>>, <<<<"-", "-", "a">>>>,
     <<<<"-", "-", "a">>, <<"-", "-", "a">>>>, <<<<"a">>, <<"-", "-", "a">>>>}

\* the common options of a call: none, title=text or ascii_lines=enable
NoKwargs == [option |-> "none", text |-> <<>>, enable |-> FALSE]

Kwargs ==
    {NoKwargs}
      \cup {[option |-> "title", text |-> <<"-", "-", "a">>, enable |-> FALSE]}
      \cup {[option |-> "ascii_lines", text |-> <<>>, enable |-> e] : e \in BOOLEAN}

_simple_option(option, enable) == IF enable THEN <<option>> ELSE <<>>

_compute_common_args(mapping) ==
    CASE mapping.option = "title" -> _dash_escape_nf(<<TITLE, mapping.text>>).list
      [] mapping.option = "ascii_lines" -> _simple_option(ASCII_LINES, mapping.enable)
      [] OTHER -> <<>>

\* add_persistent_args(args)
AddPersistentArgs ==
    /\ \E args \in PersistentVectors :
         /\ Len(dialog_persistent_arglist) + Len(args) <= MaxPersistent
         /\ dialog_persistent_arglist' = dialog_persistent_arglist \o args
         /\ added' = added \o args
         /\ call' = [fn |-> "add_persistent_args", n |-> 1, args |-> args]
    /\ UNCHANGED <<debug, gauge_process, sessions, updates>>
    /\ UNCHANGED <<gauge_in, stdin_buf, other, other_cfd, pbargs, src_fd>>
    /\ UNCHANGED parentVars
    /\ UNCHANGED childVars
    /\ UNCHANGED pipe

\* set_background_title(text)
SetBackgroundTitle ==
    /\ \E text \in OptionTexts :
         LET args == _dash_escape_nf(<<BACKTITLE, text>>).list
         IN /\ Len(dialog_persistent_arglist) + Len(args) <= MaxPersistent
            /\ dialog_persistent_arglist' = dialog_persistent_arglist \o args
            /\ added' = added \o args
            /\ call' = [fn |-> "set_background_title", n |-> 1, args |-> args]
    /\ UNCHANGED <<debug, gauge_process, sessions, updates>>
    /\ UNCHANGED <<gauge_in, stdin_buf, other, other_cfd, pbargs, src_fd>>
    /\ UNCHANGED parentVars
    /\ UNCHANGED childVars
    /\ UNCHANGED pipe

\* setup_debug(enable, file, always_flush): _debug_enabled and
\* _debug_logfile are assigned before the check that raises
SetupDebug ==
    /\ \E enable \in BOOLEAN, file \in {"None", "file"}, always_flush \in BOOLEAN :
         LET logfile == IF file # "None" THEN file ELSE debug.logfile
             raises == enable /\ logfile = "None"
         IN /\ debug' = IF raises
                        THEN [debug EXCEPT !.enabled = enable,
                                           !.logfile = logfile]
                        ELSE [enabled |-> enable, logfile |-> logfile,
                              always_flush |-> always_flush,
                              first_output |-> TRUE]
            /\ call' = [fn |-> "setup_debug", n |-> 1, enable |-> enable,
                        file |-> file, before |-> debug,
                        exc |-> IF raises THEN "BadPythonDialogUsage" ELSE ""]
    /\ UNCHANGED <<dialog_persistent_arglist, added, gauge_process, sessions, updates>>
    /\ UNCHANGED <<gauge_in, stdin_buf, other, other_cfd, pbargs, src_fd>>
    /\ UNCHANGED parentVars
    /\ UNCHANGED childVars
    /\ UNCHANGED pipe

\* a faulty vector in which the persistent arguments come last
BuildArglistPersistentLast(persistent, use_persistent_args, common, cmdargs) ==
    <<DialogPrg>> \o common \o cmdargs
      \o (IF use_persistent_args THEN persistent ELSE <<>>)

\* the vector _call_program builds: a new list that starts with
\* self._dialog_prg, extended with the persistent arguments when they are
\* to be used, then with the common arguments followed by cmdargs
BuildArglist(persistent, use_persistent_args, common, cmdargs) ==
    <<DialogPrg>> \o (IF use_persistent_args THEN persistent ELSE <<>>)
      \o common \o cmdargs

\* _call_program(cmdargs, **kwargs) up to the creation of the pipe: the
\* escaping of cmdargs, the argument vector given to os.execve and the
\* debug output
CallBuildArgs ==
    /\ \E cmdargs \in CmdArgs, dash_escape \in {"non-first", "none", "first"},
          use_persistent_args \in BOOLEAN, kwargs \in Kwargs, write_fails \in BOOLEAN :
         LET esc == _dash_escape_nf(cmdargs)
             bug == \/ dash_escape = "non-first" /\ ~esc.ok
                    \/ dash_escape \notin {"non-first", "none"}
             arglist == BuildArglist(dialog_persistent_arglist,
                                     use_persistent_args,
                                     _compute_common_args(kwargs),
                                     IF dash_escape = "non-first"
                                     THEN esc.list ELSE cmdargs)
             logs == ~bug /\ debug.enabled /\ debug.logfile # "None"
         IN /\ write_fails => logs
            /\ debug' = IF logs /\ ~write_fails
                        THEN [debug EXCEPT !.first_output = FALSE]
                        ELSE debug
            /\ call' = [fn |-> "_call_program", n |-> 1,
                        cmdargs |-> cmdargs, dash_escape |-> dash_escape,
                        use_persistent_args |-> use_persistent_args,
                        kwargs |-> kwargs,
                        persistent_before |-> dialog_persistent_arglist,
                        ret |-> IF bug THEN ListRaise("PythonDialogBug")
                                ELSE IF debug.enabled /\ debug.logfile = "None"
                                THEN ListRaise("AttributeError")
                                ELSE IF write_fails THEN ListRaise("IOError")
                                ELSE ListOk(arglist)]
    /\ UNCHANGED <<dialog_persistent_arglist, added, gauge_process, sessions, updates>>
    /\ UNCHANGED <<gauge_in, stdin_buf, other, other_cfd, pbargs, src_fd>>
    /\ UNCHANGED parentVars
    /\ UNCHANGED childVars
    /\ UNCHANGED pipe

ConfigNext ==
    \/ AddPersistentArgs
    \/ SetBackgroundTitle
    \/ SetupDebug
    \/ CallBuildArgs

ConfigSpec == Init /\ [][ConfigNext]_vars

\* C27: the argument vector of an invocation is the backend executable
\* path, then (only when the persistent arguments are to be used) all
\* elements ever added with add_persistent_args, in the order added and
\* unescaped, then the arguments of the call's option overrides, then the
\* widget arguments, escaped except for the first one or, with dash_escape
\* "none", as they are; building it does not change the persistent list
C27_ArgumentVector ==
    /\ dialog_persistent_arglist = added
    /\ (call.fn = "_call_program" /\ call.ret.ok) =>
          /\ dialog_persistent_arglist = call.persistent_before
          /\ call.ret.list =
                <<DialogPrg>>
                  \o (IF call.use_persistent_args THEN added ELSE <<>>)
                  \o _compute_common_args(call.kwargs)
                  \o (IF call.dash_escape = "none"
                      THEN call.cmdargs
                      ELSE _dash_escape_nf(call.cmdargs).list)

C27_Witness ==
    /\ call.fn = "_call_program"
    /\ added = <<<<"-", "-", "a">>, <<"a">>>>
    /\ call.use_persistent_args
    /\ call.kwargs = [option |-> "title", text |-> <<"-", "-", "a">>, enable |-> FALSE]
    /\ call.cmdargs = <<<<"-", "-", "a">>, <<"-", "-", "a">>>>
    /\ call.ret =
          ListOk(<<DialogPrg, <<"-", "-", "a">>, <<"a">>,
                   TITLE, TwoDashes, <<"-", "-", "a">>,
                   <<"-", "-", "a">>, TwoDashes, <<"-", "-", "a">>>>)

C27_WitnessUnescaped ==
    /\ call.fn = "_call_program"
    /\ added # <<>>
    /\ ~call.use_persistent_args
    /\ call.dash_escape = "none"
    /\ call.ret = ListOk(<<DialogPrg, <<"a">>, <<"-", "-", "a">>>>)

\* C30: setup_debug(enable=True) when no log file was ever supplied raises
\* BadPythonDialogUsage and leaves the debug settings as they were before
\* the call, debugging disabled, so that no later invocation tries to write
\* its command line to a log file that is missing
C30_SetupDebugLeavesDisabled ==
    /\ (/\ call.fn = "setup_debug"
        /\ call.enable
        /\ call.file = "None"
        /\ call.before.logfile = "None") =>
            /\ call.exc = "BadPythonDialogUsage"
            /\ debug = call.before
            /\ ~debug.enabled
    /\ call.fn = "_call_program" => call.ret.exc # "AttributeError"

\* the invocation after the failed setup_debug fails on the missing file
C30_WriteToMissingFile ==
    /\ call.fn = "_call_program"
    /\ debug.enabled
    /\ debug.logfile = "None"
    /\ call.ret = ListRaise("AttributeError")

\* the fork of the invocation succeeded: there is, or was, a child
Forked == cpc # "none"

\* C24: in an invocation the parent forks, closes its copy of the write
\* end of the output pipe, reads the output pipe up to the end of the
\* stream, closes the read end and only then waits for the child: it does
\* not read while it holds the write end, and it does not start to wait
\* before the output is drained
C24_ParentOrder ==
    /\ fd["child_output_wfd"] = "closed" => Forked
    /\ pc = "w_read" =>
          /\ fd["child_output_wfd"] = "closed"
          /\ fd["child_output_rfd"] = "open"
          /\ nwait = 0
    /\ (pc = "w_waitpid" \/ nwait > 0) =>
          /\ fd["child_output_wfd"] = "closed"
          /\ fd["child_output_rfd"] = "closed"
          /\ pipe = <<>>
          /\ ~OutputPipeHasWriter

C24_Witness ==
    /\ pc = "done"
    /\ mode = "perform"
    /\ cpc = "reaped"
    /\ nwait = 1
    /\ Len(child_output) = MaxOut
    /\ result.kind = "return"

\* C25: when the fork succeeded, the child has been waited for exactly
\* once, and so reaped, when the invocation returns or raises, also when
\* the parent failed to close the write end or to read the output
C25_ChildAlwaysReaped ==
    (pc = "done" /\ Forked) => (nwait = 1 /\ cpc = "reaped")

\* the invocation ended on a failed read with the child never waited for
C25_UnreapedAfterReadFailure ==
    /\ pc = "done"
    /\ result.kind = "raise"
    /\ result.cause = "read"
    /\ cpc = "zombie"
    /\ nwait = 0

\* the texts of the records from the i-th to the j-th, one after the other
RECURSIVE Flatten(_, _, _)
Flatten(recs, i, j) ==
    IF i > j THEN <<>> ELSE recs[i].data \o Flatten(recs, i + 1, j)

\* the last call that returned, 0 when there is none
LastReturned(recs) ==
    IF \E i \in 1 .. Len(recs) : recs[i].returned
    THEN CHOOSE i \in 1 .. Len(recs) :
             /\ recs[i].returned
             /\ \A j \in (i + 1) .. Len(recs) : ~recs[j].returned
    ELSE 0

\* C26: a gauge_update on an active session writes one record that ends
\* with a newline and flushes it before it returns: after any sequence of
\* calls the input stream of the backend holds the records of the calls up
\* to the last one that returned, whole and in the order of the calls, and
\* once the last call has returned the parent's buffer is empty
C26_RecordsFlushedInOrder ==
    /\ \A i \in 1 .. Len(updates) :
           updates[i].data[Len(updates[i].data)] = "\n"
    /\ gauge_in = Flatten(updates, 1, LastReturned(updates))
    /\ stdin_buf = Flatten(updates, LastReturned(updates) + 1, Len(updates))
    /\ (call.fn = "gauge_update" /\ call.ret = RetNone) =>
          /\ stdin_buf = <<>>
          /\ updates[Len(updates)].data = call.data

C26_Witness ==
    /\ Len(updates) = 2
    /\ updates[1].returned
    /\ updates[2].returned
    /\ updates[1].data # updates[2].data
    /\ gauge_in = updates[1].data \o updates[2].data
    /\ stdin_buf = <<>>
    /\ call.ret = RetNone

(***************************************************************************)
(* Several gauge sessions on one Dialog instance.  gauge_start and         *)
(* gauge_stop are taken as single steps here; their steps are followed in  *)
(* GaugeSpec.  self._gauge_process is the one place where the instance     *)
(* keeps a session: gauge_start assigns it, gauge_stop only reads it.      *)
(***************************************************************************)
SessionCall == call.fn \in {"gauge_start", "gauge_stop"}

\* the numbers of gauge_start and gauge_stop calls made so far
Starts == IF SessionCall THEN call.starts ELSE 0
Stops == IF SessionCall THEN call.stops ELSE 0

\* so far no system call of the parent failed and every gauge_stop came
\* after a gauge_start of its own
Plain == IF SessionCall THEN call.plain ELSE TRUE

\* the sessions whose backend was started
Started == {i \in 1 .. MaxSessions : sessions[i].proc # "none"}

\* gauge_start(): the pipes are made, the backend is forked and
\* self._gauge_process is replaced by the new session; when a step fails
\* before the assignment, self._gauge_process keeps its value
SessionStart ==
    /\ Starts < MaxSessions
    /\ \/ LET i == Cardinality(Started) + 1
          IN /\ sessions' = [sessions EXCEPT ![i] =
                                [proc |-> "running", stdin |-> "open",
                                 rfd |-> "open", nwait |-> 0]]
             /\ gauge_process' = i
             /\ call' = [fn |-> "gauge_start", n |-> 1, session |-> i,
                         starts |-> Starts + 1, stops |-> Stops,
                         plain |-> Plain, stale |-> FALSE, exc |-> ""]
       \/ /\ call' = [fn |-> "gauge_start", n |-> 1, session |-> 0,
                      starts |-> Starts + 1, stops |-> Stops,
                      plain |-> FALSE, stale |-> FALSE,
                      exc |-> _OSErrorHandling("OSError")]
          /\ UNCHANGED <<sessions, gauge_process>>
    /\ UNCHANGED <<dialog_persistent_arglist, debug, added, updates>>
    /\ UNCHANGED <<gauge_in, stdin_buf, other, other_cfd, pbargs, src_fd>>
    /\ UNCHANGED parentVars
    /\ UNCHANGED childVars
    /\ UNCHANGED pipe

\* the backend of a session ends by itself
SessionBackendEnds ==
    /\ \E i \in Started :
         /\ sessions[i].proc = "running"
         /\ sessions' = [sessions EXCEPT ![i].proc = "zombie"]
    /\ UNCHANGED <<dialog_persistent_arglist, debug, gauge_process, added, updates>>
    /\ UNCHANGED auxVars
    /\ UNCHANGED parentVars
    /\ UNCHANGED childVars
    /\ UNCHANGED pipe

\* gauge_stop(): p = self._gauge_process; p["stdin"].close() (nothing is
\* done on a file object that is closed already); then
\* _wait_for_program_termination(p["pid"], p["child_output_rfd"]) opens
\* the descriptor, which fails when it is closed, reads up to the end of
\* the stream, closes it and waits for the backend
SessionStop ==
    /\ Stops < MaxSessions
    /\ LET p == gauge_process
           stop(session, plain, stale, exc) ==
               [fn |-> "gauge_stop", n |-> 1, session |-> session,
                starts |-> Starts, stops |-> Stops + 1,
                plain |-> Plain /\ Stops < Starts /\ plain,
                stale |-> stale, exc |-> exc]
       IN IF p = 0
          THEN /\ call' = stop(0, TRUE, FALSE, "AttributeError")
               /\ UNCHANGED sessions
          ELSE IF sessions[p].rfd = "closed"
          THEN /\ call' = stop(p, TRUE, TRUE, _OSErrorHandling("OSError"))
               /\ sessions' = [sessions EXCEPT ![p].stdin = "closed"]
          ELSE \/ /\ sessions' = [sessions EXCEPT ![p] =
                                     [proc |-> "reaped", stdin |-> "closed",
                                      rfd |-> "closed", nwait |-> @.nwait + 1]]
                  /\ call' = stop(p, TRUE, sessions[p].stdin = "closed", "")
               \/ /\ sessions[p].stdin = "open"
                  /\ sessions' = [sessions EXCEPT ![p].stdin = "closed"]
                  /\ call' = stop(p, FALSE, FALSE, _OSErrorHandling("IOError"))
    /\ UNCHANGED <<dialog_persistent_arglist, debug, gauge_process, added, updates>>
    /\ UNCHANGED <<gauge_in, stdin_buf, other, other_cfd, pbargs, src_fd>>
    /\ UNCHANGED parentVars
    /\ UNCHANGED childVars
    /\ UNCHANGED pipe

SessionsNext ==
    \/ SessionStart
    \/ SessionBackendEnds
    \/ SessionStop

SessionsSpec == Init /\ [][SessionsNext]_vars

\* C29: after gauge_start and gauge_stop calls on one instance, as many
\* stops as starts, every backend that was started has been reaped exactly
\* once and no pipe descriptor of a session is open in the parent; and no
\* gauge_stop acts on a descriptor or a process that an earlier gauge_stop
\* closed or reaped
C29_AllSessionsCleanedUp ==
    /\ (SessionCall /\ Plain /\ Starts = Stops) =>
          \A i \in Started :
              /\ sessions[i].proc = "reaped"
              /\ sessions[i].nwait = 1
              /\ sessions[i].stdin = "closed"
              /\ sessions[i].rfd = "closed"
    /\ (call.fn = "gauge_stop" /\ Plain) => ~call.stale

\* start, start, stop, stop with every step succeeding: the first session
\* is left running with its descriptors open and the second stop finds the
\* session of the first stop
C29_FirstSessionLeft ==
    /\ call.fn = "gauge_stop"
    /\ call.starts = 2
    /\ call.stops = 2
    /\ call.plain
    /\ call.stale
    /\ sessions[1].proc = "running"
    /\ sessions[1].stdin = "open"
    /\ sessions[1].rfd = "open"
    /\ sessions[2].proc = "reaped"

====
